---------------------------- MODULE Spec2Model ----------------------------
(***************************************************************************)
(* Bitboard legal move generator of FeS (src/src/bit_board.rs), its two    *)
(* visitors (GenericMoveGenerator, PerftMove) and the perft driver         *)
(* (src/src/lib.rs).                                                       *)
(*                                                                         *)
(* A u64 word is modelled as the set of the indices of its set bits, a     *)
(* subset of 0..63: & is \cap, | is \cup, ! is complement in 0..63, and a  *)
(* shift moves every index and drops the ones that leave 0..63.            *)
(***************************************************************************)
EXTENDS Integers, Sequences, FiniteSets

Sq == 0 .. 63

\* u64::MAX
ALL == Sq

Not(m) == Sq \ m

Shl(m, k) == { s + k : s \in { x \in m : x + k <= 63 } }

Shr(m, k) == { s - k : s \in { x \in m : x - k >= 0 } }

Bit(s) == { s }

\* u64::trailing_zeros: the lowest set bit, 64 for the zero word
TrailingZeros(m) == IF m = {} THEN 64 ELSE CHOOSE s \in m : \A t \in m : s <= t

LEFT_SIDE == { s \in Sq : s % 8 = 7 }

RIGHT_SIDE == { s \in Sq : s % 8 = 0 }

LEFT2_SIDE == LEFT_SIDE \cup Shr(LEFT_SIDE, 1)

RIGHT2_SIDE == RIGHT_SIDE \cup Shl(RIGHT_SIDE, 1)

\* 0xff << (8 * r)
RankBits(r) == { s \in Sq : s \div 8 = r }

(***************************************************************************)
(* BitBoard: board[0..3], the four planes of the 4-bit square tags.        *)
(***************************************************************************)
EmptyBoard == [ i \in 0 .. 3 |-> {} ]

Tag(b, s) ==
    (IF s \in b[0] THEN 1 ELSE 0) + (IF s \in b[1] THEN 2 ELSE 0)
  + (IF s \in b[2] THEN 4 ELSE 0) + (IF s \in b[3] THEN 8 ELSE 0)

clear(b, square) == [ i \in 0 .. 3 |-> b[i] \ { square } ]

\* dupe without *line &= !(1 << to): the copied bits are or-ed into the target
dupe_KeepsTarget(b, from, to) ==
    [ i \in 0 .. 3 |->
        IF from \in b[i] THEN b[i] \cup { to } ELSE b[i] ]

dupe(b, from, to) ==
    [ i \in 0 .. 3 |->
        IF from \in b[i] THEN b[i] \cup { to } ELSE b[i] \ { to } ]

mov(b, from, to) == clear(dupe(b, from, to), from)

colour_mask(b, TURN) == IF TURN THEN b[3] ELSE Not(b[3])

piece_mask(b) == b[0] \cup b[1] \cup b[2]

col_piece_mask(b, TURN) == piece_mask(b) \cap colour_mask(b, TURN)

enemy_or_empty(b, TURN) == Not(col_piece_mask(b, TURN))

\* dir is "Left" (<<) or "Right" (>>)
ShiftDir(dir, m, step) == IF dir = "Left" THEN Shl(m, step) ELSE Shr(m, step)

RECURSIVE SlideLoop(_, _, _, _, _, _)
\* the loop with mask in place of mask & !colision: a blocker does not stop
\* the ray
SlideLoop_ThroughBlockers(dir, mask, step, colision, side_mask, i) ==
    IF i = 6 THEN mask
    ELSE SlideLoop(dir,
                   mask \cup (ShiftDir(dir, mask, step) \ side_mask),
                   step, colision, side_mask, i + 1)

SlideLoop(dir, mask, step, colision, side_mask, i) ==
    IF i = 6 THEN mask
    ELSE SlideLoop(dir,
                   mask \cup (ShiftDir(dir, mask \ colision, step) \ side_mask),
                   step, colision, side_mask, i + 1)

sliding_mask(dir, pieces, step, colision, side_mask) ==
    SlideLoop(dir, ShiftDir(dir, pieces, step) \ side_mask,
              step, colision, side_mask, 0)

pawn_mask(b) == (Not(b[0]) \cap Not(b[1])) \cap b[2]

col_pawn_mask(b, TURN) == pawn_mask(b) \cap colour_mask(b, TURN)

pawn_attack_mask(b, TURN) ==
    LET pawns == col_pawn_mask(b, TURN)
    IN  IF TURN
        THEN (Shl(pawns, 9) \ RIGHT_SIDE) \cup (Shl(pawns, 7) \ LEFT_SIDE)
        ELSE (Shr(pawns, 7) \ RIGHT_SIDE) \cup (Shr(pawns, 9) \ LEFT_SIDE)

knight_mask(b) == (b[0] \cap Not(b[1])) \cap b[2]

col_knight_mask(b, TURN) == knight_mask(b) \cap colour_mask(b, TURN)

knight_like_attack_mask(pieces) ==
    LET knights_r2 == pieces \ RIGHT2_SIDE
        knights_r1 == pieces \ RIGHT_SIDE
        knights_l1 == pieces \ LEFT_SIDE
        knights_l2 == pieces \ LEFT2_SIDE
        inner == Shr(knights_r1, 1) \cup Shl(knights_l1, 1)
        outer == Shr(knights_r2, 2) \cup Shl(knights_l2, 2)
    IN  Shl(outer, 8) \cup Shr(outer, 8) \cup Shl(inner, 16) \cup Shr(inner, 16)

knight_attack_mask(b, TURN) == knight_like_attack_mask(col_knight_mask(b, TURN))

diagonal_mask(b) == b[0] \cap Not(b[2])

col_diagonal_mask(b, TURN) == diagonal_mask(b) \cap colour_mask(b, TURN)

diagonal_like_attack_mask(b, pieces) ==
    LET blockers == piece_mask(b)
        ur == sliding_mask("Left", pieces, 7, blockers, LEFT_SIDE)
        ul == sliding_mask("Left", pieces, 9, blockers, RIGHT_SIDE)
        dr == sliding_mask("Right", pieces, 9, blockers, LEFT_SIDE)
        dl == sliding_mask("Right", pieces, 7, blockers, RIGHT_SIDE)
    IN  ur \cup ul \cup dr \cup dl

diagonal_attack_mask(b, TURN) ==
    diagonal_like_attack_mask(b, col_diagonal_mask(b, TURN))

ortho_mask(b) == b[1] \cap Not(b[2])

col_ortho_mask(b, TURN) == ortho_mask(b) \cap colour_mask(b, TURN)

ortho_like_attack_mask(b, pieces) ==
    LET blockers == piece_mask(b)
        r == sliding_mask("Left", pieces, 1, blockers, RIGHT_SIDE)
        l == sliding_mask("Right", pieces, 1, blockers, LEFT_SIDE)
        u == sliding_mask("Left", pieces, 8, blockers, {})
        d == sliding_mask("Right", pieces, 8, blockers, {})
    IN  r \cup l \cup u \cup d

ortho_attack_mask(b, TURN) == ortho_like_attack_mask(b, col_ortho_mask(b, TURN))

king_mask(b) == (b[0] \cap b[1]) \cap b[2]

col_king_mask(b, TURN) == king_mask(b) \cap colour_mask(b, TURN)

king_attack_mask(b, TURN) ==
    LET kings == col_king_mask(b, TURN)
        u == Shl(kings, 8)
        d == Shr(kings, 8)
        mast == kings \cup u \cup d
    IN  (Shr(mast, 1) \ LEFT_SIDE) \cup (Shl(mast, 1) \ RIGHT_SIDE) \cup u \cup d

attack_mask(b, TURN) ==
    pawn_attack_mask(b, TURN) \cup knight_attack_mask(b, TURN)
      \cup diagonal_attack_mask(b, TURN) \cup ortho_attack_mask(b, TURN)
      \cup king_attack_mask(b, TURN)

(***************************************************************************)
(* Check masks (bit_board.rs 386-534).                                     *)
(***************************************************************************)
\* one arm of an axis check mask: if r1 & other != 0 { mask &= r1 }
CheckArm(mask, r1, other) == IF (r1 \cap other) # {} THEN mask \cap r1 ELSE mask

hor_check_mask(b, TURN) ==
    LET kings == col_king_mask(b, TURN)
        pieces == piece_mask(b)
        other_ortho == col_ortho_mask(b, ~TURN)
        m1 == CheckArm(ALL, sliding_mask("Right", kings, 1, pieces, LEFT_SIDE), other_ortho)
    IN  CheckArm(m1, sliding_mask("Left", kings, 1, pieces, RIGHT_SIDE), other_ortho)

vert_check_mask(b, TURN) ==
    LET kings == col_king_mask(b, TURN)
        pieces == piece_mask(b)
        other_ortho == col_ortho_mask(b, ~TURN)
        m1 == CheckArm(ALL, sliding_mask("Left", kings, 8, pieces, {}), other_ortho)
    IN  CheckArm(m1, sliding_mask("Right", kings, 8, pieces, {}), other_ortho)

lr_check_mask(b, TURN) ==
    LET kings == col_king_mask(b, TURN)
        pieces == piece_mask(b)
        other_diag == col_diagonal_mask(b, ~TURN)
        m1 == CheckArm(ALL, sliding_mask("Left", kings, 7, pieces, LEFT_SIDE), other_diag)
    IN  CheckArm(m1, sliding_mask("Right", kings, 7, pieces, RIGHT_SIDE), other_diag)

rl_check_mask(b, TURN) ==
    LET kings == col_king_mask(b, TURN)
        pieces == piece_mask(b)
        other_diag == col_diagonal_mask(b, ~TURN)
        m1 == CheckArm(ALL, sliding_mask("Right", kings, 9, pieces, LEFT_SIDE), other_diag)
    IN  CheckArm(m1, sliding_mask("Left", kings, 9, pieces, RIGHT_SIDE), other_diag)

\* if probe & other != 0 { mask &= restrict }
CheckJump(mask, probe, other, restrict) ==
    IF (probe \cap other) # {} THEN mask \cap restrict ELSE mask

\* the eight knight arms of check_mask (lines 484-513); the restriction is
\* taken from knights_r2 in all eight arms
KnightCheckArms(mask, kings, other_knights) ==
    LET knights_r2 == kings \ RIGHT2_SIDE
        knights_r1 == kings \ RIGHT_SIDE
        knights_l1 == kings \ LEFT_SIDE
        knights_l2 == kings \ LEFT2_SIDE
        m1 == CheckJump(mask, Shr(knights_r2, 10), other_knights, Shr(knights_r2, 10))
        m2 == CheckJump(m1, Shl(knights_r2, 6), other_knights, Shl(knights_r2, 6))
        m3 == CheckJump(m2, Shr(knights_r1, 17), other_knights, Shr(knights_r2, 17))
        m4 == CheckJump(m3, Shl(knights_r1, 15), other_knights, Shl(knights_r2, 15))
        m5 == CheckJump(m4, Shr(knights_l1, 15), other_knights, Shr(knights_r2, 15))
        m6 == CheckJump(m5, Shl(knights_l1, 17), other_knights, Shl(knights_r2, 17))
        m7 == CheckJump(m6, Shr(knights_l2, 6), other_knights, Shr(knights_r2, 6))
    IN  CheckJump(m7, Shl(knights_l2, 10), other_knights, Shl(knights_r2, 10))

\* the two pawn arms of check_mask (lines 515-531)
PawnCheckArms(TURN, mask, kings, other_pawns) ==
    IF TURN
    THEN CheckJump(CheckJump(mask, Shl(kings, 9) \ RIGHT_SIDE, other_pawns, Shl(kings, 9)),
                   Shl(kings, 7) \ LEFT_SIDE, other_pawns, Shl(kings, 7))
    ELSE CheckJump(CheckJump(mask, Shr(kings, 7) \ RIGHT_SIDE, other_pawns, Shr(kings, 7)),
                   Shr(kings, 9) \ LEFT_SIDE, other_pawns, Shr(kings, 9))

check_mask(b, TURN) ==
    PawnCheckArms(TURN,
                  KnightCheckArms(hor_check_mask(b, TURN) \cap vert_check_mask(b, TURN)
                                    \cap lr_check_mask(b, TURN) \cap rl_check_mask(b, TURN),
                                  col_king_mask(b, TURN), col_knight_mask(b, ~TURN)),
                  col_king_mask(b, TURN), col_pawn_mask(b, ~TURN))

(***************************************************************************)
(* Pin masks (bit_board.rs 536-637).                                       *)
(***************************************************************************)
\* if r2 & other != 0 { mask |= r1 | r2 }
PinArmMask(r1, r2, other) == IF (r2 \cap other) # {} THEN r1 \cup r2 ELSE {}

\* r2: the ray from the first blocker of r1 on
PinArmFrom(dir, r1, step, pieces, side_mask, other) ==
    PinArmMask(r1, sliding_mask(dir, r1 \cap pieces, step, pieces, side_mask), other)

\* one arm of a pin mask; r1: the ray from the king
PinArm(dir, kings, step, pieces, side_mask, other) ==
    PinArmFrom(dir, sliding_mask(dir, kings, step, pieces, side_mask),
               step, pieces, side_mask, other)

vert_pin_mask(b, TURN) ==
    LET kings == col_king_mask(b, TURN)
        pieces == piece_mask(b)
        other_ortho == col_ortho_mask(b, ~TURN)
    IN  PinArm("Left", kings, 8, pieces, {}, other_ortho)
          \cup PinArm("Right", kings, 8, pieces, {}, other_ortho)

hor_pin_mask(b, TURN) ==
    LET kings == col_king_mask(b, TURN)
        pieces == piece_mask(b)
        other_ortho == col_ortho_mask(b, ~TURN)
    IN  PinArm("Right", kings, 1, pieces, LEFT_SIDE, other_ortho)
          \cup PinArm("Left", kings, 1, pieces, RIGHT_SIDE, other_ortho)

ortho_pin_mask(b, TURN) == hor_pin_mask(b, TURN) \cup vert_pin_mask(b, TURN)

lr_pin_mask(b, TURN) ==
    LET kings == col_king_mask(b, TURN)
        pieces == piece_mask(b)
        other_diag == col_diagonal_mask(b, ~TURN)
    IN  PinArm("Left", kings, 7, pieces, LEFT_SIDE, other_diag)
          \cup PinArm("Right", kings, 7, pieces, RIGHT_SIDE, other_diag)

rl_pin_mask(b, TURN) ==
    LET kings == col_king_mask(b, TURN)
        pieces == piece_mask(b)
        other_diag == col_diagonal_mask(b, ~TURN)
    IN  PinArm("Right", kings, 9, pieces, LEFT_SIDE, other_diag)
          \cup PinArm("Left", kings, 9, pieces, RIGHT_SIDE, other_diag)

diagonal_pin_mask(b, TURN) == lr_pin_mask(b, TURN) \cup rl_pin_mask(b, TURN)

(***************************************************************************)
(* Move emission (bit_board.rs 639-962).  A generator returns the sequence *)
(* of visitor callbacks it makes, in the order it makes them; a callback   *)
(* is [cb |-> name, args |-> <<from, to>>, <<from>> or <<>>].  Each        *)
(* generator computes its masks once and hands them to the operator that   *)
(* models its loops.                                                       *)
(***************************************************************************)
Call(cb, args) == [ cb |-> cb, args |-> args ]

\* while m != 0 { idx = m.trailing_zeros(); ...; m &= m - 1 }: the indices in
\* the order the loop visits them
RECURSIVE BitLoop(_)
BitLoop(m) ==
    IF m = {} THEN << >>
    ELSE LET idx == TrailingZeros(m) IN << idx >> \o BitLoop(m \ { idx })

RECURSIVE Concat(_)
Concat(ss) == IF ss = << >> THEN << >> ELSE Head(ss) \o Concat(Tail(ss))

\* the loop taking the shifted (target) square for from_idx
StepLoop_FromTarget(cb, fs, d) ==
    [ i \in 1 .. Len(fs) |-> Call(cb, << fs[i] + d, fs[i] + d + d >>) ]

\* a loop over the from squares fs, each moved by the fixed offset d
StepLoop(cb, fs, d) == [ i \in 1 .. Len(fs) |-> Call(cb, << fs[i], fs[i] + d >>) ]

Push2Loop(fs) == [ i \in 1 .. Len(fs) |-> Call("on_pawn_push2", << fs[i] >>) ]

\* a capture loop of gen_pawn_moves_with_ep: on_ep_move when the target is empty
EpStepLoop(fs, d, empty) ==
    [ i \in 1 .. Len(fs) |->
        IF (empty \cap Bit(fs[i] + d)) # {}
        THEN Call("on_ep_move", << fs[i], fs[i] + d >>)
        ELSE Call("on_move", << fs[i], fs[i] + d >>) ]

\* the to-loop of one piece over the squares ts
ToLoop(cb, from_idx, ts) == [ i \in 1 .. Len(ts) |-> Call(cb, << from_idx, ts[i] >>) ]

\* the four loops of gen_pawn_moves (lines 649-708)
PawnLoops(b, TURN, chk, hor_pins, ortho_pins, lr_pins, rl_pins, diagonal_pins) ==
    LET empty == Not(piece_mask(b))
        empty_free == empty \cap chk
        enemy == col_piece_mask(b, ~TURN) \cap chk
        base_pawns == col_pawn_mask(b, TURN)
        lr_pawns == (base_pawns \ rl_pins) \ ortho_pins
        up_pawns == (base_pawns \ diagonal_pins) \ hor_pins
        rl_pawns == (base_pawns \ lr_pins) \ ortho_pins
    IN  IF TURN
        THEN LET up1 == Shr(empty_free, 8) \cap up_pawns
                 up2 == Shr(empty_free, 16) \cap Shr(empty, 8) \cap up_pawns \cap RankBits(1)
                 lr == (Shr(enemy, 7) \cap lr_pawns) \ RIGHT_SIDE
                 rl == (Shr(enemy, 9) \cap rl_pawns) \ LEFT_SIDE
             IN  StepLoop("on_move", BitLoop(up1), 8) \o Push2Loop(BitLoop(up2))
                   \o StepLoop("on_move", BitLoop(lr), 7)
                   \o StepLoop("on_move", BitLoop(rl), 9)
        ELSE LET up1 == Shl(empty_free, 8) \cap up_pawns
                 up2 == Shl(empty_free, 16) \cap Shl(empty, 8) \cap up_pawns \cap RankBits(6)
                 lr == (Shl(enemy, 7) \cap lr_pawns) \ LEFT_SIDE
                 rl == (Shl(enemy, 9) \cap rl_pawns) \ RIGHT_SIDE
             IN  StepLoop("on_move", BitLoop(up1), -8) \o Push2Loop(BitLoop(up2))
                   \o StepLoop("on_move", BitLoop(lr), -7)
                   \o StepLoop("on_move", BitLoop(rl), -9)

gen_pawn_moves(b, TURN) ==
    PawnLoops(b, TURN, check_mask(b, TURN), hor_pin_mask(b, TURN), ortho_pin_mask(b, TURN),
              lr_pin_mask(b, TURN), rl_pin_mask(b, TURN), diagonal_pin_mask(b, TURN))

\* the four loops of gen_pawn_moves_with_ep (lines 721-797)
PawnLoopsWithEp(b, TURN, sq, chk, hor_pins, ortho_pins, lr_pins, rl_pins, diagonal_pins) ==
    LET empty == Not(piece_mask(b))
        empty_free == empty \cap chk
        ep == Bit(sq)
        enemy == col_piece_mask(b, ~TURN) \cup ep
        base_pawns == col_pawn_mask(b, TURN)
        lr_pawns == (base_pawns \ rl_pins) \ ortho_pins
        up_pawns == (base_pawns \ diagonal_pins) \ hor_pins
        rl_pawns == (base_pawns \ lr_pins) \ ortho_pins
    IN  IF TURN
        THEN LET up1 == Shr(empty_free, 8) \cap up_pawns
                 up2 == Shr(empty_free, 16) \cap Shr(empty, 8) \cap up_pawns \cap RankBits(1)
                 lr == (Shr(enemy, 7) \cap lr_pawns) \ RIGHT_SIDE
                 rl == (Shr(enemy, 9) \cap rl_pawns) \ LEFT_SIDE
             IN  StepLoop("on_move", BitLoop(up1), 8) \o Push2Loop(BitLoop(up2))
                   \o EpStepLoop(BitLoop(lr), 7, empty) \o EpStepLoop(BitLoop(rl), 9, empty)
        ELSE LET up1 == Shl(empty_free, 8) \cap up_pawns
                 up2 == Shl(empty_free, 16) \cap Shl(empty, 8) \cap up_pawns \cap RankBits(6)
                 lr == (Shl(enemy, 7) \cap lr_pawns) \ LEFT_SIDE
                 rl == (Shl(enemy, 9) \cap rl_pawns) \ RIGHT_SIDE
             IN  StepLoop("on_move", BitLoop(up1), -8) \o Push2Loop(BitLoop(up2))
                   \o EpStepLoop(BitLoop(lr), -7, empty) \o EpStepLoop(BitLoop(rl), -9, empty)

gen_pawn_moves_with_ep(b, TURN, sq) ==
    PawnLoopsWithEp(b, TURN, sq, check_mask(b, TURN), hor_pin_mask(b, TURN),
                    ortho_pin_mask(b, TURN), lr_pin_mask(b, TURN), rl_pin_mask(b, TURN),
                    diagonal_pin_mask(b, TURN))

\* the loop over the knights (lines 809-818)
KnightLoops(base_mask, knights) ==
    Concat([ i \in 1 .. Len(knights) |->
               ToLoop("on_move", knights[i],
                      BitLoop(knight_like_attack_mask(Bit(knights[i])) \cap base_mask)) ])

gen_knight_moves(b, TURN) ==
    KnightLoops(enemy_or_empty(b, TURN) \cap check_mask(b, TURN),
                BitLoop((col_knight_mask(b, TURN) \ ortho_pin_mask(b, TURN))
                          \ diagonal_pin_mask(b, TURN)))

\* the loops over the free and the pinned bishops and queens (lines 829-852)
DiagonalLoops(b, TURN, base_mask, ortho_pins, diagonal_pins) ==
    LET free_bishops == BitLoop((col_diagonal_mask(b, TURN) \ diagonal_pins) \ ortho_pins)
        pin_bishops == BitLoop(col_diagonal_mask(b, TURN) \cap diagonal_pins)
    IN  Concat([ i \in 1 .. Len(free_bishops) |->
                   ToLoop("on_move", free_bishops[i],
                          BitLoop(diagonal_like_attack_mask(b, Bit(free_bishops[i]))
                                    \cap base_mask)) ])
        \o
        Concat([ i \in 1 .. Len(pin_bishops) |->
                   ToLoop("on_move", pin_bishops[i],
                          BitLoop(diagonal_like_attack_mask(b, Bit(pin_bishops[i]))
                                    \cap base_mask \cap diagonal_pins)) ])

gen_diagonal_moves(b, TURN) ==
    DiagonalLoops(b, TURN, enemy_or_empty(b, TURN) \cap check_mask(b, TURN),
                  ortho_pin_mask(b, TURN), diagonal_pin_mask(b, TURN))

\* the loops of lines 863-886 with the pinned rooks and queens left unmasked
OrthoLoops_PinnedUnmasked(b, TURN, base_mask, ortho_pins, diagonal_pins) ==
    LET rooks == BitLoop(col_ortho_mask(b, TURN) \ diagonal_pins)
    IN  Concat([ i \in 1 .. Len(rooks) |->
                   ToLoop("on_move", rooks[i],
                          BitLoop(ortho_like_attack_mask(b, Bit(rooks[i]))
                                    \cap base_mask)) ])

\* the loops over the free and the pinned rooks and queens (lines 863-886)
OrthoLoops(b, TURN, base_mask, ortho_pins, diagonal_pins) ==
    LET free_rooks == BitLoop((col_ortho_mask(b, TURN) \ diagonal_pins) \ ortho_pins)
        pin_rooks == BitLoop(col_ortho_mask(b, TURN) \cap ortho_pins)
    IN  Concat([ i \in 1 .. Len(free_rooks) |->
                   ToLoop("on_move", free_rooks[i],
                          BitLoop(ortho_like_attack_mask(b, Bit(free_rooks[i]))
                                    \cap base_mask)) ])
        \o
        Concat([ i \in 1 .. Len(pin_rooks) |->
                   ToLoop("on_move", pin_rooks[i],
                          BitLoop(ortho_like_attack_mask(b, Bit(pin_rooks[i]))
                                    \cap base_mask \cap ortho_pins)) ])

gen_ortho_moves(b, TURN) ==
    OrthoLoops(b, TURN, enemy_or_empty(b, TURN) \cap check_mask(b, TURN),
               ortho_pin_mask(b, TURN), diagonal_pin_mask(b, TURN))

\* if checked { to_mask &= !(adjacent & !enemies) } (lines 902-917)
AxisCut(to_mask, checked, adjacent, enemies) ==
    IF checked THEN to_mask \ (adjacent \ enemies) ELSE to_mask

\* the king's destinations (lines 896-917)
KingToMask(b, TURN, other_attacks, hor, vert, lr, rl) ==
    LET enemies == col_piece_mask(b, ~TURN)
        base_mask == enemy_or_empty(b, TURN) \ other_attacks
        king == col_king_mask(b, TURN)
        t0 == king_attack_mask(b, TURN) \cap base_mask
        t1 == AxisCut(t0, hor,
                      (Shr(king, 1) \ LEFT_SIDE) \cup (Shl(king, 1) \ RIGHT_SIDE), enemies)
        t2 == AxisCut(t1, vert, Shr(king, 8) \cup Shl(king, 8), enemies)
        t3 == AxisCut(t2, lr,
                      (Shr(king, 7) \ RIGHT_SIDE) \cup (Shl(king, 7) \ LEFT_SIDE), enemies)
    IN  AxisCut(t3, rl,
                (Shr(king, 9) \ LEFT_SIDE) \cup (Shl(king, 9) \ RIGHT_SIDE), enemies)

\* (0b00000110 & empty) + 8: bit 3 is clear in the left operand, so the sum
\* sets bit 3 and carries nothing
KsProbe(empty8) == (empty8 \cap { 1, 2 }) \cup { 3 }

\* (0b01110000 & empty) >> 1
QsProbe(empty8) == Shr(empty8 \cap { 4, 5, 6 }, 1)

\* line 925 without the test of the attacked squares
WhiteKsCastle_IgnoresAttacks(WK, empty, free) == WK /\ KsProbe(empty) = { 1, 2, 3 }

\* line 925
WhiteKsCastle(WK, empty, free) == WK /\ (KsProbe(empty) \cap free) = { 1, 2, 3 }

\* line 929 without the two shifts by 56: Black's test reads White's home rank
BlackKsCastle_NoShift(BK, empty, free) ==
    BK /\ (KsProbe(empty) \cap free) = { 1, 2, 3 }

\* line 929
BlackKsCastle(BK, empty, free) ==
    BK /\ (KsProbe(Shr(empty, 56)) \cap Shr(free, 56)) = { 1, 2, 3 }

\* line 933
WhiteQsCastle(WQ, empty, free) == WQ /\ (QsProbe(empty) \cap free) = { 3, 4, 5 }

\* line 937
BlackQsCastle(BQ, empty, free) ==
    BQ /\ (QsProbe(Shr(empty, 56)) \cap Shr(free, 56)) = { 3, 4, 5 }

\* the king loop and the four castling tests (lines 919-939); free = !other_attacks
KingLoops(from_idx, to_mask, WQ, WK, BQ, BK, empty, free) ==
    ToLoop("on_king_move", from_idx, BitLoop(to_mask))
      \o (IF WhiteKsCastle(WK, empty, free) THEN << Call("on_ks_castle", << >>) >> ELSE << >>)
      \o (IF BlackKsCastle(BK, empty, free) THEN << Call("on_ks_castle", << >>) >> ELSE << >>)
      \o (IF WhiteQsCastle(WQ, empty, free) THEN << Call("on_qs_castle", << >>) >> ELSE << >>)
      \o (IF BlackQsCastle(BQ, empty, free) THEN << Call("on_qs_castle", << >>) >> ELSE << >>)

\* other_attacks is computed once (line 895) and used by both parts
KingMoves(b, TURN, WQ, WK, BQ, BK, other_attacks) ==
    KingLoops(TrailingZeros(col_king_mask(b, TURN)),
              KingToMask(b, TURN, other_attacks,
                         hor_check_mask(b, TURN) # ALL, vert_check_mask(b, TURN) # ALL,
                         lr_check_mask(b, TURN) # ALL, rl_check_mask(b, TURN) # ALL),
              WQ, WK, BQ, BK, Not(piece_mask(b)), Not(other_attacks))

gen_king_moves(b, TURN, WQ, WK, BQ, BK) ==
    KingMoves(b, TURN, WQ, WK, BQ, BK, attack_mask(b, ~TURN))

gen_moves(b, TURN, WQ, WK, BQ, BK) ==
    gen_pawn_moves(b, TURN) \o gen_knight_moves(b, TURN)
      \o gen_diagonal_moves(b, TURN) \o gen_ortho_moves(b, TURN)
      \o gen_king_moves(b, TURN, WQ, WK, BQ, BK)

gen_moves_with_ep(b, TURN, WQ, WK, BQ, BK, ep) ==
    gen_pawn_moves_with_ep(b, TURN, ep) \o gen_knight_moves(b, TURN)
      \o gen_diagonal_moves(b, TURN) \o gen_ortho_moves(b, TURN)
      \o gen_king_moves(b, TURN, WQ, WK, BQ, BK)

(***************************************************************************)
(* BitBoardGame (bit_board.rs 965-1135) and Option<u8>.                    *)
(***************************************************************************)
None == << >>

Some(x) == << x >>

from_parts(b, turn, white_qs, white_ks, black_qs, black_ks, ep) ==
    [ board |-> b, turn |-> turn, white_qs |-> white_qs, white_ks |-> white_ks,
      black_qs |-> black_qs, black_ks |-> black_ks, ep |-> ep ]

\* from_fen's glyph table, after to_ascii_uppercase
PieceIdx ==
    [ c \in { "P", "N", "B", "R", "Q", "K" } |->
        CASE c = "P" -> 4 [] c = "N" -> 5 [] c = "B" -> 1
          [] c = "R" -> 2 [] c = "Q" -> 3 [] c = "K" -> 7 ]

ToAsciiUppercase ==
    [ c \in { "p", "n", "b", "r", "q", "k" } |->
        CASE c = "p" -> "P" [] c = "n" -> "N" [] c = "b" -> "B"
          [] c = "r" -> "R" [] c = "q" -> "Q" [] c = "k" -> "K" ]

ToDigit ==
    [ c \in { "0", "1", "2", "3", "4", "5", "6", "7", "8", "9" } |->
        CASE c = "0" -> 0 [] c = "1" -> 1 [] c = "2" -> 2 [] c = "3" -> 3
          [] c = "4" -> 4 [] c = "5" -> 5 [] c = "6" -> 6 [] c = "7" -> 7
          [] c = "8" -> 8 [] c = "9" -> 9 ]

\* *v |= ((piece_idx >> i) & 1) << square, for the four planes
SetTag(b, square, piece_idx) ==
    [ i \in 0 .. 3 |->
        IF (piece_idx \div (2 ^ i)) % 2 = 1 THEN b[i] \cup { square } ELSE b[i] ]

\* the placement loop over the characters left after '/' is removed; the
\* result is "ok", "none" (return None) or "panic" (63 - counter underflows)
RECURSIVE FenLoop(_, _, _)
FenLoop(chars, b, counter) ==
    IF chars = << >> THEN [ res |-> "ok", board |-> b, counter |-> counter ]
    ELSE LET c == Head(chars)
         IN  IF c \in DOMAIN ToDigit
             THEN FenLoop(Tail(chars), b, counter + ToDigit[c])
             ELSE LET up == IF c \in DOMAIN ToAsciiUppercase THEN ToAsciiUppercase[c] ELSE c
                  IN  IF up \notin DOMAIN PieceIdx
                      THEN [ res |-> "none", board |-> b, counter |-> counter ]
                      ELSE IF counter > 63
                      THEN [ res |-> "panic", board |-> b, counter |-> counter ]
                      ELSE FenLoop(Tail(chars),
                                   SetTag(b, 63 - counter,
                                          PieceIdx[up] + (IF c \in DOMAIN PieceIdx THEN 8 ELSE 0)),
                                   counter + 1)

EpCol ==
    [ c \in { "a", "b", "c", "d", "e", "f", "g", "h" } |->
        CASE c = "a" -> 7 [] c = "b" -> 6 [] c = "c" -> 5 [] c = "d" -> 4
          [] c = "e" -> 3 [] c = "f" -> 2 [] c = "g" -> 1 [] c = "h" -> 0 ]

\* fen = [placement: the characters of the first field without '/',
\*        turn: the second field, castle: the characters of the third field,
\*        ep: the first character of the fourth field, "" when it has none]
from_fen(fen) ==
    IF fen.turn \notin { "w", "b" } \/ fen.ep = "" THEN None
    ELSE LET turn == (fen.turn = "w")
             enpassant == IF fen.ep \in DOMAIN EpCol
                          THEN Some(IF turn THEN EpCol[fen.ep] + 40 ELSE EpCol[fen.ep] + 16)
                          ELSE None
             r == FenLoop(fen.placement, EmptyBoard, 0)
         IN  IF r.res = "ok" /\ r.counter = 64
             THEN Some(from_parts(r.board, turn, "Q" \in fen.castle, "K" \in fen.castle,
                                  "q" \in fen.castle, "k" \in fen.castle, enpassant))
             ELSE None

(***************************************************************************)
(* GenericMoveGenerator (bit_board.rs 1204-1317): each callback pushes a   *)
(* BitBoardGameMove [mov, bbg].                                            *)
(***************************************************************************)
BitBoardGameMove(m, bbg) == [ mov |-> m, bbg |-> bbg ]

Generic_on_move(TURN, WQ, WK, BQ, BK, me, from, to) ==
    BitBoardGameMove(to * 64 + from,
                     from_parts(mov(me, from, to), ~TURN, WQ, WK, BQ, BK, None))

Generic_on_rook_move(TURN, WQ, WK, BQ, BK, me, from, to) ==
    BitBoardGameMove(to * 64 + from,
                     from_parts(mov(me, from, to), ~TURN, WQ /\ from # 7, WK /\ from # 0,
                                BQ /\ from # 63, BK /\ from # 56, None))

\* on_king_move storing !TURN / TURN without the rights it was given
Generic_on_king_move_DropsInput(TURN, WQ, WK, BQ, BK, me, from, to) ==
    BitBoardGameMove(to * 64 + from,
                     from_parts(mov(me, from, to), ~TURN, ~TURN, ~TURN, TURN, TURN, None))

Generic_on_king_move(TURN, WQ, WK, BQ, BK, me, from, to) ==
    BitBoardGameMove(to * 64 + from,
                     from_parts(mov(me, from, to), ~TURN, WQ /\ ~TURN, WK /\ ~TURN,
                                BQ /\ TURN, BK /\ TURN, None))

Generic_on_ep_move(TURN, WQ, WK, BQ, BK, me, from, to) ==
    LET b1 == mov(me, from, to)
        b == IF TURN THEN clear(b1, to - 8) ELSE clear(b1, to + 8)
    IN  BitBoardGameMove(to * 64 + from, from_parts(b, ~TURN, WQ, WK, BQ, BK, None))

Generic_on_qs_castle(TURN, WQ, WK, BQ, BK, me) ==
    IF TURN
    THEN BitBoardGameMove(5 * 64 + 3,
                          from_parts(mov(mov(me, 7, 4), 3, 5), ~TURN, FALSE, FALSE, BQ, BK, None))
    ELSE BitBoardGameMove(61 * 64 + 59,
                          from_parts(mov(mov(me, 63, 60), 59, 61), ~TURN, WQ, WK, FALSE, FALSE, None))

Generic_on_ks_castle(TURN, WQ, WK, BQ, BK, me) ==
    IF TURN
    THEN BitBoardGameMove(1 * 64 + 3,
                          from_parts(mov(mov(me, 0, 2), 3, 1), ~TURN, FALSE, FALSE, BQ, BK, None))
    ELSE BitBoardGameMove(57 * 64 + 59,
                          from_parts(mov(mov(me, 56, 58), 59, 57), ~TURN, WQ, WK, FALSE, FALSE, None))

Generic_on_pawn_push2(TURN, WQ, WK, BQ, BK, me, from) ==
    IF TURN
    THEN BitBoardGameMove((from + 16) * 64 + from,
                          from_parts(mov(me, from, from + 16), ~TURN, WQ, WK, BQ, BK, Some(from + 8)))
    ELSE BitBoardGameMove((from - 16) * 64 + from,
                          from_parts(mov(me, from, from - 16), ~TURN, WQ, WK, BQ, BK, Some(from - 8)))

(***************************************************************************)
(* PerftMove (perft_bb_mover.rs 9-160): below the target depth a callback  *)
(* builds the board b and continues with b.gen_moves::<T, WQ, WK, BQ, BK>  *)
(* or gen_moves_with_ep; the record returned holds that call's board,      *)
(* const parameters and ep argument.                                       *)
(***************************************************************************)
Perft_on_move(TURN, WQ, WK, BQ, BK, me, from, to) ==
    LET mask == Bit(from) \cup Bit(to)
    IN  from_parts(mov(me, from, to), ~TURN,
                   (mask \cap Bit(7)) # {} /\ WQ, (mask \cap Bit(0)) # {} /\ WK,
                   (mask \cap Bit(63)) # {} /\ BQ, (mask \cap Bit(56)) # {} /\ BK, None)

Perft_on_king_move(TURN, WQ, WK, BQ, BK, me, from, to) ==
    IF TURN
    THEN from_parts(mov(me, from, to), FALSE, FALSE, FALSE, BQ, BK, None)
    ELSE from_parts(mov(me, from, to), TRUE, WQ, WK, FALSE, FALSE, None)

Perft_on_ep_move(TURN, WQ, WK, BQ, BK, me, from, to) ==
    LET b1 == mov(me, from, to)
        b == IF TURN THEN clear(b1, to - 8) ELSE clear(b1, to + 8)
    IN  from_parts(b, FALSE, WQ, WK, BQ, BK, None)

Perft_on_qs_castle(TURN, WQ, WK, BQ, BK, me) ==
    IF TURN
    THEN from_parts(mov(mov(me, 7, 4), 3, 5), FALSE, FALSE, FALSE, BQ, BK, None)
    ELSE from_parts(mov(mov(me, 63, 60), 59, 61), TRUE, WQ, WK, FALSE, FALSE, None)

\* on_ks_castle clearing only the king-side right of the castling side
Perft_on_ks_castle_KeepsQs(TURN, WQ, WK, BQ, BK, me) ==
    IF TURN
    THEN from_parts(mov(mov(me, 0, 2), 3, 1), FALSE, WQ, FALSE, BQ, BK, None)
    ELSE from_parts(mov(mov(me, 56, 58), 59, 57), TRUE, WQ, WK, BQ, FALSE, None)

Perft_on_ks_castle(TURN, WQ, WK, BQ, BK, me) ==
    IF TURN
    THEN from_parts(mov(mov(me, 0, 2), 3, 1), FALSE, FALSE, FALSE, BQ, BK, None)
    ELSE from_parts(mov(mov(me, 56, 58), 59, 57), TRUE, WQ, WK, FALSE, FALSE, None)

\* on_pawn_push2 passing the pawn's destination instead of the skipped square
Perft_on_pawn_push2_EpAtDest(TURN, WQ, WK, BQ, BK, me, from) ==
    IF TURN
    THEN from_parts(mov(me, from, from + 16), FALSE, WQ, WK, BQ, BK, Some(from + 16))
    ELSE from_parts(mov(me, from, from - 16), TRUE, WQ, WK, BQ, BK, Some(from - 16))

Perft_on_pawn_push2(TURN, WQ, WK, BQ, BK, me, from) ==
    IF TURN
    THEN from_parts(mov(me, from, from + 16), FALSE, WQ, WK, BQ, BK, Some(from + 8))
    ELSE from_parts(mov(me, from, from - 16), TRUE, WQ, WK, BQ, BK, Some(from - 8))

(***************************************************************************)
(* BitBoardGame::moves / do_move / unmove and lib::perft.                  *)
(***************************************************************************)
\* the gen_moves / gen_moves_with_ep call that moves() dispatches to
Calls(g) ==
    IF g.ep = None
    THEN gen_moves(g.board, g.turn, g.white_qs, g.white_ks, g.black_qs, g.black_ks)
    ELSE gen_moves_with_ep(g.board, g.turn, g.white_qs, g.white_ks, g.black_qs, g.black_ks,
                           g.ep[1])

GenericVisit(g, c) ==
    CASE c.cb = "on_move" ->
           Generic_on_move(g.turn, g.white_qs, g.white_ks, g.black_qs, g.black_ks,
                           g.board, c.args[1], c.args[2])
      [] c.cb = "on_king_move" ->
           Generic_on_king_move(g.turn, g.white_qs, g.white_ks, g.black_qs, g.black_ks,
                                g.board, c.args[1], c.args[2])
      [] c.cb = "on_ep_move" ->
           Generic_on_ep_move(g.turn, g.white_qs, g.white_ks, g.black_qs, g.black_ks,
                              g.board, c.args[1], c.args[2])
      [] c.cb = "on_pawn_push2" ->
           Generic_on_pawn_push2(g.turn, g.white_qs, g.white_ks, g.black_qs, g.black_ks,
                                 g.board, c.args[1])
      [] c.cb = "on_qs_castle" ->
           Generic_on_qs_castle(g.turn, g.white_qs, g.white_ks, g.black_qs, g.black_ks, g.board)
      [] c.cb = "on_ks_castle" ->
           Generic_on_ks_castle(g.turn, g.white_qs, g.white_ks, g.black_qs, g.black_ks, g.board)

moves(g) ==
    LET cs == Calls(g) IN [ i \in 1 .. Len(cs) |-> GenericVisit(g, cs[i]) ]

do_move(g, m) == [ gs |-> m.bbg, un |-> g ]

\* unmove without the assignment to *self
unmove_KeepsSelf(g, un) == g

unmove(g, un) == un

RECURSIVE perft(_, _)
RECURSIVE PerftSum(_, _, _, _)
PerftSum(g, ms, i, limit) ==
    IF i > Len(ms) THEN 0
    ELSE LET d == do_move(g, ms[i])
         IN  perft(d.gs, limit - 1) + PerftSum(unmove(d.gs, d.un), ms, i + 1, limit)

perft(g, limit) ==
    IF limit = 0 THEN 1
    ELSE IF limit = 1 THEN Len(moves(g))
    ELSE PerftSum(g, moves(g), 1, limit)

PerftVisit(g, c) ==
    CASE c.cb = "on_move" ->
           Perft_on_move(g.turn, g.white_qs, g.white_ks, g.black_qs, g.black_ks,
                         g.board, c.args[1], c.args[2])
      [] c.cb = "on_king_move" ->
           Perft_on_king_move(g.turn, g.white_qs, g.white_ks, g.black_qs, g.black_ks,
                              g.board, c.args[1], c.args[2])
      [] c.cb = "on_ep_move" ->
           Perft_on_ep_move(g.turn, g.white_qs, g.white_ks, g.black_qs, g.black_ks,
                            g.board, c.args[1], c.args[2])
      [] c.cb = "on_pawn_push2" ->
           Perft_on_pawn_push2(g.turn, g.white_qs, g.white_ks, g.black_qs, g.black_ks,
                               g.board, c.args[1])
      [] c.cb = "on_qs_castle" ->
           Perft_on_qs_castle(g.turn, g.white_qs, g.white_ks, g.black_qs, g.black_ks, g.board)
      [] c.cb = "on_ks_castle" ->
           Perft_on_ks_castle(g.turn, g.white_qs, g.white_ks, g.black_qs, g.black_ks, g.board)

(***************************************************************************)
(* Start positions.                                                        *)
(***************************************************************************)
\* spec table, position 1
\* rnbqkbnr/pppppppp/8/8/8/8/PPPPPPPP/RNBQKBNR w KQkq - 0 1
FenStart ==
    [ placement |->
        <<
           "r", "n", "b", "q", "k", "b", "n", "r", "p", "p", "p", "p", "p", "p", "p", "p",
           "8", "8", "8", "8", "P", "P", "P", "P", "P", "P", "P", "P", "R", "N", "B", "Q",
           "K", "B", "N", "R"
        >>,
      turn |-> "w", castle |-> { "K", "Q", "k", "q" }, ep |-> "-" ]

\* spec table, position 3
\* 8/2p5/3p4/KP5r/1R3p1k/8/4P1P1/8 w - -
FenPos3 ==
    [ placement |->
        <<
           "8", "2", "p", "5", "3", "p", "4", "K", "P", "5", "r", "1", "R", "3", "p", "1",
           "k", "8", "4", "P", "1", "P", "1", "8"
        >>,
      turn |-> "w", castle |-> { "-" }, ep |-> "-" ]

\* both sides may castle either way; the rooks face each other on the a- and h-files
\* r3k2r/8/8/8/8/8/8/R3K2R w KQkq -
FenCastle ==
    [ placement |->
        <<
           "r", "3", "k", "2", "r", "8", "8", "8", "8", "8", "8", "R", "3", "K", "2", "R"
        >>,
      turn |-> "w", castle |-> { "K", "Q", "k", "q" }, ep |-> "-" ]

\* a pawn of each side stands one step from its last rank
\* r3k3/1P6/8/8/8/8/6p1/4K2R w Kq -
FenPromo ==
    [ placement |->
        <<
           "r", "3", "k", "3", "1", "P", "6", "8", "8", "8", "8", "6", "p", "1", "4", "K",
           "2", "R"
        >>,
      turn |-> "w", castle |-> { "K", "q" }, ep |-> "-" ]

\* position 3 after ... c7-c5: the en-passant square c6 is set
\* 8/8/3p4/KPp4r/1R3p1k/8/4P1P1/8 w - c6
FenEp ==
    [ placement |->
        <<
           "8", "8", "3", "p", "4", "K", "P", "p", "4", "r", "1", "R", "3", "p", "1", "k",
           "8", "4", "P", "1", "P", "1", "8"
        >>,
      turn |-> "w", castle |-> { }, ep |-> "c" ]

\* White is in check from the rook on e8 and the knight on d3, and the
\* en-passant square b6 is set
\* 4r2k/8/8/Pp6/8/3n4/8/4K3 w - b6
FenDoubleEp ==
    [ placement |->
        <<
           "4", "r", "2", "k", "8", "8", "P", "p", "6", "8", "3", "n", "4", "8", "4", "K",
           "3"
        >>,
      turn |-> "w", castle |-> { }, ep |-> "b" ]

\* four white pieces stand between their king on d4 and a black slider: the
\* rook d6 (file), the pawn c5 and the bishop e3 (diagonals), the knight f4 (rank)
\* 3r3k/8/1b1R4/2P5/3K1N1q/4B3/8/6b1 w - -
FenPins ==
    [ placement |->
        <<
           "3", "r", "3", "k", "8", "1", "b", "1", "R", "4", "2", "P", "5", "3", "K", "1",
           "N", "1", "q", "4", "B", "3", "8", "6", "b", "1"
        >>,
      turn |-> "w", castle |-> { }, ep |-> "-" ]

StartFens == { FenStart, FenPos3, FenCastle, FenPromo, FenEp, FenDoubleEp, FenPins }

MaxDepth == 2

\* PerftMove.depth_target: the counting visitor recurses while depth + 1 is
\* below it, so the positions it generates from lie at depths 0 .. MaxDepth
depth_target == MaxDepth + 1

(***************************************************************************)
(* The state machine: a walk down the tree of generated moves, driven by   *)
(* one of the two visitors.                                                *)
(***************************************************************************)
\* overflow_checks is the build setting of the same name: with it an integer
\* overflow panics, without it the result wraps.  Only the arithmetic of
\* board.rs can overflow, so the bit-board specifications leave it off.
VARIABLES game, visitor, depth, last, stack, ret, overflow_checks

vars == << game, visitor, depth, last, stack, ret, overflow_checks >>

Init ==
    /\ game \in { from_fen(f)[1] : f \in StartFens }
    /\ visitor \in { "Generic", "Perft" }
    /\ depth = 0
    /\ last = [ cb |-> "from_fen", args |-> << >>, parent |-> game ]
    /\ stack = << >>
    /\ ret = None
    /\ overflow_checks = FALSE

Range(q) == { q[i] : i \in 1 .. Len(q) }

\* one callback of the materialising visitor, followed by do_move
GenericStep(cb) ==
    /\ visitor = "Generic"
    /\ depth < MaxDepth
    /\ \E c \in Range(Calls(game)) :
         /\ c.cb = cb
         /\ game' = do_move(game, GenericVisit(game, c)).gs
         /\ last' = [ cb |-> cb, args |-> c.args, parent |-> game ]
    /\ depth' = depth + 1
    /\ UNCHANGED << visitor, stack, ret, overflow_checks >>

\* one callback of the counting visitor below the target depth
PerftStep(cb) ==
    /\ visitor = "Perft"
    /\ depth + 1 # depth_target
    /\ \E c \in Range(Calls(game)) :
         /\ c.cb = cb
         /\ game' = PerftVisit(game, c)
         /\ last' = [ cb |-> cb, args |-> c.args, parent |-> game ]
    /\ depth' = depth + 1
    /\ UNCHANGED << visitor, stack, ret, overflow_checks >>

GenericOnMove == GenericStep("on_move")

GenericOnKingMove == GenericStep("on_king_move")

GenericOnEpMove == GenericStep("on_ep_move")

GenericOnPawnPush2 == GenericStep("on_pawn_push2")

GenericOnQsCastle == GenericStep("on_qs_castle")

GenericOnKsCastle == GenericStep("on_ks_castle")

PerftOnMove == PerftStep("on_move")

PerftOnKingMove == PerftStep("on_king_move")

PerftOnEpMove == PerftStep("on_ep_move")

PerftOnPawnPush2 == PerftStep("on_pawn_push2")

PerftOnQsCastle == PerftStep("on_qs_castle")

PerftOnKsCastle == PerftStep("on_ks_castle")

Next ==
    \/ GenericOnMove
    \/ GenericOnKingMove
    \/ GenericOnEpMove
    \/ GenericOnPawnPush2
    \/ GenericOnQsCastle
    \/ GenericOnKsCastle
    \/ PerftOnMove
    \/ PerftOnKingMove
    \/ PerftOnEpMove
    \/ PerftOnPawnPush2
    \/ PerftOnQsCastle
    \/ PerftOnKsCastle

Spec == Init /\ [][Next]_vars

(***************************************************************************)
(* lib::perft as a machine: stack holds one frame per active call of      *)
(* perft, game is the position behind its `gs` argument and ret is the    *)
(* value the call that returned last has handed to its caller.            *)
(***************************************************************************)
MaxLimit == 3

Frame(limit) ==
    [ limit |-> limit, pc |-> "entry", moves |-> << >>, idx |-> 1, total |-> 0,
      unmov |-> None ]

Top == stack[Len(stack)]

SetTop(f) == [ stack EXCEPT ![Len(stack)] = f ]

Pop == SubSeq(stack, 1, Len(stack) - 1)

InitPerft ==
    /\ game \in { from_fen(f)[1] : f \in StartFens }
    /\ visitor = "Generic"
    /\ depth = 0
    /\ \E limit \in 0 .. MaxLimit :
         /\ last = [ cb |-> "perft", args |-> << limit >>, parent |-> game ]
         /\ stack = << Frame(limit) >>
    /\ ret = None
    /\ overflow_checks = FALSE

\* if limit == 0 { 1 }
PerftLimit0 ==
    /\ stack # << >> /\ Top.pc = "entry" /\ Top.limit = 0
    /\ ret' = Some(1)
    /\ stack' = Pop
    /\ UNCHANGED << game, visitor, depth, last, overflow_checks >>

\* else if limit == 1 { gs.moves().len() }
PerftLimit1 ==
    /\ stack # << >> /\ Top.pc = "entry" /\ Top.limit = 1
    /\ ret' = Some(Len(moves(game)))
    /\ stack' = Pop
    /\ UNCHANGED << game, visitor, depth, last, overflow_checks >>

\* let moves = gs.moves(); let mut total = 0;
PerftMoves ==
    /\ stack # << >> /\ Top.pc = "entry" /\ Top.limit >= 2
    /\ stack' = SetTop([ Top EXCEPT !.pc = "loop", !.moves = moves(game),
                                    !.idx = 1, !.total = 0 ])
    /\ UNCHANGED << game, visitor, depth, last, ret, overflow_checks >>

\* let unmov = gs.do_move(&mov); and the call perft(gs, limit - 1)
PerftDoMove ==
    /\ stack # << >> /\ Top.pc = "loop" /\ Top.idx <= Len(Top.moves)
    /\ LET d == do_move(game, Top.moves[Top.idx])
       IN  /\ game' = d.gs
           /\ stack' = Append(SetTop([ Top EXCEPT !.pc = "call", !.unmov = Some(d.un) ]),
                              Frame(Top.limit - 1))
    /\ depth' = depth + 1
    /\ UNCHANGED << visitor, last, ret, overflow_checks >>

\* the step of PerftUnmove with `total =` in place of `total +=`
PerftUnmove_Overwrites ==
    /\ stack # << >> /\ Top.pc = "call" /\ ret # None
    /\ game' = unmove(game, Top.unmov[1])
    /\ stack' = SetTop([ Top EXCEPT !.pc = "loop", !.total = ret[1],
                                    !.idx = Top.idx + 1, !.unmov = None ])
    /\ ret' = None
    /\ depth' = depth - 1
    /\ UNCHANGED << visitor, last, overflow_checks >>

\* total += (the value of the call); gs.unmove(&unmov);
PerftUnmove ==
    /\ stack # << >> /\ Top.pc = "call" /\ ret # None
    /\ game' = unmove(game, Top.unmov[1])
    /\ stack' = SetTop([ Top EXCEPT !.pc = "loop", !.total = Top.total + ret[1],
                                    !.idx = Top.idx + 1, !.unmov = None ])
    /\ ret' = None
    /\ depth' = depth - 1
    /\ UNCHANGED << visitor, last, overflow_checks >>

\* the loop has ended: total
PerftReturn ==
    /\ stack # << >> /\ Top.pc = "loop" /\ Top.idx > Len(Top.moves)
    /\ ret' = Some(Top.total)
    /\ stack' = Pop
    /\ UNCHANGED << game, visitor, depth, last, overflow_checks >>

NextPerft ==
    \/ PerftLimit0
    \/ PerftLimit1
    \/ PerftMoves
    \/ PerftDoMove
    \/ PerftUnmove
    \/ PerftReturn

SpecPerft == InitPerft /\ [][NextPerft]_vars

(***************************************************************************)
(* Reference notions of chess, stated on square tags and board geometry,   *)
(* independent of the generator's masks.                                   *)
(***************************************************************************)
File(s) == s % 8

Rank(s) == s \div 8

Abs(x) == IF x < 0 THEN -x ELSE x

Sign(x) == IF x > 0 THEN 1 ELSE IF x < 0 THEN -1 ELSE 0

\* the piece type of a square: 0 empty, 4 pawn, 5 knight, 1 bishop, 2 rook,
\* 3 queen, 7 king
Kind(b, s) == Tag(b, s) % 8

IsWhite(b, s) == Tag(b, s) >= 8

\* the squares strictly between p and s on a common line
Between(p, s) ==
    LET df == File(s) - File(p)
        dr == Rank(s) - Rank(p)
        n == IF Abs(df) > Abs(dr) THEN Abs(df) ELSE Abs(dr)
    IN  { p + k * (8 * Sign(dr) + Sign(df)) : k \in 1 .. (n - 1) }

\* the piece on p attacks the square s
RefAttacks(b, p, s) ==
    LET df == File(s) - File(p)
        dr == Rank(s) - Rank(p)
        k == Kind(b, p)
        clear_way == \A m \in Between(p, s) : Kind(b, m) = 0
    IN  /\ p # s
        /\ CASE k = 4 -> Abs(df) = 1 /\ dr = (IF IsWhite(b, p) THEN 1 ELSE -1)
             [] k = 5 -> { Abs(df), Abs(dr) } = { 1, 2 }
             [] k = 7 -> Abs(df) <= 1 /\ Abs(dr) <= 1
             [] k = 1 -> Abs(df) = Abs(dr) /\ clear_way
             [] k = 2 -> (df = 0 \/ dr = 0) /\ clear_way
             [] k = 3 -> (df = 0 \/ dr = 0 \/ Abs(df) = Abs(dr)) /\ clear_way
             [] OTHER -> FALSE

\* the king of colour white stands on a square an enemy piece attacks
RefInCheck(b, white) ==
    \E k \in Sq :
       /\ Kind(b, k) = 7
       /\ IsWhite(b, k) = white
       /\ \E p \in Sq : Kind(b, p) # 0 /\ IsWhite(b, p) # white /\ RefAttacks(b, p, k)

Corners == { 0, 7, 56, 63 }

LastRanks == RankBits(0) \cup RankBits(7)

\* the from and to squares of the callback that produced the current position
LastSquares ==
    IF Len(last.args) = 2 THEN { last.args[1], last.args[2] }
    ELSE IF Len(last.args) = 1
    THEN { last.args[1], IF last.parent.turn THEN last.args[1] + 16 ELSE last.args[1] - 16 }
    ELSE { }

Rights(g) == << g.white_qs, g.white_ks, g.black_qs, g.black_ks >>

(***************************************************************************)
(* Claims.                                                                 *)
(***************************************************************************)
\* C1: in every successor the generator emits, the king of the side that
\* just moved is not attacked by any enemy piece.
C1_MoverKingNotAttacked ==
    depth > 0 => ~RefInCheck(game.board, last.parent.turn)

\* C2: perft over BitBoardGame::moves returns the published node counts:
\* 20 and 400 at depths 1 and 2 from the start position, 14 and 191 at
\* depths 1 and 2 from position 3.
C2_PublishedNodeCounts ==
    (depth = 0 /\ visitor = "Generic") =>
        /\ game = from_fen(FenStart)[1] => (perft(game, 1) = 20 /\ perft(game, 2) = 400)
        /\ game = from_fen(FenPos3)[1] => (perft(game, 1) = 14 /\ perft(game, 2) = 191)

\* C3: every successor is to be played by the opposite colour, under both
\* visitors and for every callback, on_ep_move included.
C3_SideToMoveFlips ==
    depth > 0 => game.turn = ~last.parent.turn

\* the from/to pairs the generator emits for a pawn arriving on a last rank
PromotionPairs(g) ==
    { c.args : c \in { x \in Range(Calls(g)) :
                         /\ Len(x.args) = 2
                         /\ Kind(g.board, x.args[1]) = 4
                         /\ x.args[2] \in LastRanks } }

\* C4: for a pawn move onto the last rank the generator emits exactly four
\* successors, holding a queen, a rook, a bishop and a knight of the mover's
\* colour on the destination, and no successor has a pawn on rank 1 or 8.
C4_PromotionSuccessors ==
    /\ \A s \in LastRanks : Kind(game.board, s) # 4
    /\ \A p \in PromotionPairs(game) :
          LET succ == { m \in Range(moves(game)) : m.mov = p[2] * 64 + p[1] }
          IN  /\ Cardinality(succ) = 4
              /\ { Kind(m.bbg.board, p[2]) : m \in succ } = { 3, 2, 1, 5 }
              /\ \A m \in succ : IsWhite(m.bbg.board, p[2]) = game.turn

\* C5: after a move that departs from or arrives at a corner square the
\* castling right tied to that corner is false (h1: WK, a1: WQ, h8: BK,
\* a8: BQ), under both visitors.
C5_CornerClearsRight ==
    (depth > 0 /\ Len(last.args) = 2) =>
        /\ 0 \in LastSquares => ~game.white_ks
        /\ 7 \in LastSquares => ~game.white_qs
        /\ 56 \in LastSquares => ~game.black_ks
        /\ 63 \in LastSquares => ~game.black_qs

\* C6: a move that is no king move and no castle and touches no corner
\* square leaves all four castling rights as they were, under both visitors.
C6_OtherMovesKeepRights ==
    ( /\ depth > 0
      /\ last.cb \in { "on_move", "on_ep_move", "on_pawn_push2" }
      /\ LastSquares \cap Corners = { } )
        => Rights(game) = Rights(last.parent)

\* C7: after on_king_move, on_ks_castle or on_qs_castle for side S both
\* castling rights of S are false and the opponent's two are unchanged,
\* under both visitors.
C7_KingMoveClearsOwnRights ==
    (depth > 0 /\ last.cb \in { "on_king_move", "on_ks_castle", "on_qs_castle" }) =>
        IF last.parent.turn
        THEN /\ ~game.white_qs /\ ~game.white_ks
             /\ game.black_qs = last.parent.black_qs
             /\ game.black_ks = last.parent.black_ks
        ELSE /\ ~game.black_qs /\ ~game.black_ks
             /\ game.white_qs = last.parent.white_qs
             /\ game.white_ks = last.parent.white_ks

\* a White castle by either visitor from a position where all four rights held
C7_Witness ==
    /\ depth > 0
    /\ last.cb \in { "on_ks_castle", "on_qs_castle" }
    /\ last.parent.turn
    /\ last.parent.white_qs /\ last.parent.white_ks
    /\ game.black_qs /\ game.black_ks
    /\ ~game.white_qs /\ ~game.white_ks

\* C8: along any sequence of generated moves none of the four castling
\* flags changes from false back to true.
C8_RightsNeverReturn ==
    [][ /\ game'.white_qs => game.white_qs
        /\ game'.white_ks => game.white_ks
        /\ game'.black_qs => game.black_qs
        /\ game'.black_ks => game.black_ks ]_vars

\* a move made from a position that had already lost White's king-side right
\* while Black still held theirs
C8_Witness ==
    /\ depth = 2
    /\ ~last.parent.white_ks
    /\ last.parent.black_ks
    /\ ~game.white_ks

\* C9: a successor has ep = Some(sq) exactly when it came through
\* on_pawn_push2, with sq the skipped square (from + 8 for White, from - 8
\* for Black); every other callback yields None, so the counting visitor
\* continues with gen_moves_with_ep only after on_pawn_push2.
C9_EpOnlyAfterPush2 ==
    depth > 0 =>
        IF last.cb = "on_pawn_push2"
        THEN game.ep = Some(IF last.parent.turn THEN last.args[1] + 8 ELSE last.args[1] - 8)
        ELSE game.ep = None

\* a Black double push under the counting visitor
C9_Witness ==
    /\ depth > 0
    /\ visitor = "Perft"
    /\ last.cb = "on_pawn_push2"
    /\ ~last.parent.turn
    /\ game.ep # None

\* C10: the list BitBoardGame::moves returns holds no two entries with the
\* same packed move and the same successor position.
C10_NoDuplicateMoves ==
    Cardinality(Range(moves(game))) = Len(moves(game))

\* a position whose list holds both castles and more than twenty moves
C10_Witness ==
    /\ \E c \in Range(Calls(game)) : c.cb = "on_ks_castle"
    /\ \E c \in Range(Calls(game)) : c.cb = "on_qs_castle"
    /\ Len(moves(game)) > 20

(***************************************************************************)
(* Claims on kings, checks, castling and pins.                             *)
(***************************************************************************)
\* the squares holding a king of the given colour
RefKings(b, white) == { k \in Sq : Kind(b, k) = 7 /\ IsWhite(b, k) = white }

\* the enemy pieces attacking a king of the given colour
RefCheckers(b, white) ==
    { p \in Sq : /\ Kind(b, p) # 0
                 /\ IsWhite(b, p) # white
                 /\ \E k \in RefKings(b, white) : RefAttacks(b, p, k) }

\* C11: every reachable position has exactly one white king and exactly
\* one black king.
C11_OneKingPerSide ==
    /\ Cardinality(RefKings(game.board, TRUE)) = 1
    /\ Cardinality(RefKings(game.board, FALSE)) = 1

\* the pawn that has just made the double push, seen from the en-passant square
PushedPawn(g) == IF g.turn THEN g.ep[1] - 8 ELSE g.ep[1] + 8

\* the own pawns p whose en-passant capture would uncover the king along
\* the rank: the king and an enemy rook or queen stand on the rank of p and
\* the pushed pawn, and those two pawns are the only pieces between them
RankUncoveringPawns(g) ==
    IF g.ep = None THEN { }
    ELSE { p \in Sq :
             /\ Kind(g.board, p) = 4 /\ IsWhite(g.board, p) = g.turn
             /\ Rank(p) = Rank(PushedPawn(g)) /\ Abs(File(p) - File(PushedPawn(g))) = 1
             /\ Kind(g.board, PushedPawn(g)) = 4 /\ IsWhite(g.board, PushedPawn(g)) # g.turn
             /\ \E k \in RefKings(g.board, g.turn) : \E q \in Sq :
                   /\ Kind(g.board, q) \in { 2, 3 } /\ IsWhite(g.board, q) # g.turn
                   /\ Rank(k) = Rank(p) /\ Rank(q) = Rank(p)
                   /\ { m \in Between(k, q) : Kind(g.board, m) # 0 } = { p, PushedPawn(g) } }

\* C12: when the en-passant capture would take both pawns off the rank the
\* king shares with an enemy rook or queen, gen_pawn_moves_with_ep does not
\* emit it.
C12_NoEpDiscoveredCheck ==
    \A p \in RankUncoveringPawns(game) :
       \A c \in Range(Calls(game)) : ~(c.cb = "on_ep_move" /\ c.args[1] = p)

\* C13: when two or more enemy pieces attack the king of the side to move,
\* check_mask is 0 and the generator invokes only on_king_move, with or
\* without an en-passant target.
C13_DoubleCheckOnlyKingMoves ==
    Cardinality(RefCheckers(game.board, game.turn)) >= 2 =>
        /\ check_mask(game.board, game.turn) = { }
        /\ \A c \in Range(Calls(game)) : c.cb = "on_king_move"

\* some piece of the given colour attacks the square s
RefAttacked(b, byWhite, s) ==
    \E p \in Sq : Kind(b, p) # 0 /\ IsWhite(b, p) = byWhite /\ RefAttacks(b, p, s)

\* the home square of the king of the given colour (e1, e8)
KingHome(white) == IF white THEN 3 ELSE 59

\* the number of times the generator invokes the callback cb
CallCount(g, cb) == Len(SelectSeq(Calls(g), LAMBDA c : c.cb = cb))

\* the side to move may castle king-side: right set, e/f/g not attacked,
\* f and g empty
RefKsCastle(g) ==
    LET k == KingHome(g.turn)
    IN  /\ IF g.turn THEN g.white_ks ELSE g.black_ks
        /\ \A s \in { k, k - 1, k - 2 } : ~RefAttacked(g.board, ~g.turn, s)
        /\ \A s \in { k - 1, k - 2 } : Kind(g.board, s) = 0

\* the side to move may castle queen-side: right set, e/d/c not attacked,
\* d, c and b empty
RefQsCastle(g) ==
    LET k == KingHome(g.turn)
    IN  /\ IF g.turn THEN g.white_qs ELSE g.black_qs
        /\ \A s \in { k, k + 1, k + 2 } : ~RefAttacked(g.board, ~g.turn, s)
        /\ \A s \in { k + 1, k + 2, k + 3 } : Kind(g.board, s) = 0

\* C14: gen_king_moves emits the king-side castle exactly when the side to
\* move holds the right, e/f/g are not attacked and f, g are empty, and the
\* queen-side castle exactly when it holds that right, e/d/c are not
\* attacked and d, c, b are empty; it emits no castle for the other side.
C14_CastleConditions ==
    /\ CallCount(game, "on_ks_castle") = (IF RefKsCastle(game) THEN 1 ELSE 0)
    /\ CallCount(game, "on_qs_castle") = (IF RefQsCastle(game) THEN 1 ELSE 0)

\* White holds the king-side right and f1, g1 are empty, but one of e1, f1,
\* g1 is attacked and no king-side castle is emitted, while the queen-side
\* castle is
C14_Witness ==
    /\ game.turn /\ game.white_ks /\ game.white_qs
    /\ Kind(game.board, 1) = 0 /\ Kind(game.board, 2) = 0
    /\ RefAttacked(game.board, FALSE, 2)
    /\ CallCount(game, "on_ks_castle") = 0
    /\ CallCount(game, "on_qs_castle") = 1

\* the destination square of a call that moves a piece from args[1]
CallTo(g, c) ==
    IF c.cb = "on_pawn_push2"
    THEN (IF g.turn THEN c.args[1] + 16 ELSE c.args[1] - 16)
    ELSE c.args[2]

\* the piece on q slides along the line from q to k
SlidesAlong(b, q, k) ==
    LET df == File(k) - File(q)
        dr == Rank(k) - Rank(q)
    IN  /\ q # k
        /\ \/ (df = 0 \/ dr = 0) /\ Kind(b, q) \in { 2, 3 }
           \/ Abs(df) = Abs(dr) /\ Kind(b, q) \in { 1, 3 }

\* the triples << p, k, q >>: p is a piece of the side to move and the only
\* piece between its king k and an enemy slider q of the matching type
RefPinned(g) ==
    { t \in Sq \X RefKings(g.board, g.turn) \X Sq :
        /\ Kind(g.board, t[3]) # 0 /\ IsWhite(g.board, t[3]) # g.turn
        /\ SlidesAlong(g.board, t[3], t[2])
        /\ Kind(g.board, t[1]) # 0 /\ IsWhite(g.board, t[1]) = g.turn
        /\ { m \in Between(t[2], t[3]) : Kind(g.board, m) # 0 } = { t[1] } }

\* C15: a piece of the side to move that is the only piece between its king
\* and an enemy slider of the matching type is moved only to squares of the
\* line from the king to the slider, the slider's square included.
C15_PinnedStaysOnLine ==
    \A t \in RefPinned(game) : \A c \in Range(Calls(game)) :
        (Len(c.args) >= 1 /\ c.args[1] = t[1])
            => CallTo(game, c) \in Between(t[2], t[3]) \cup { t[3] }

\* a pinned pawn captures the pinning bishop, a pinned bishop and a pinned
\* rook move along their lines, and a pinned knight has no move
C15_Witness ==
    \E tp \in RefPinned(game), tb \in RefPinned(game),
       tr \in RefPinned(game), tn \in RefPinned(game) :
        /\ Kind(game.board, tp[1]) = 4 /\ Kind(game.board, tb[1]) = 1
        /\ Kind(game.board, tr[1]) = 2 /\ Kind(game.board, tn[1]) = 5
        /\ \E c \in Range(Calls(game)) : c.cb = "on_move" /\ c.args = << tp[1], tp[3] >>
        /\ \E c \in Range(Calls(game)) : c.cb = "on_move" /\ c.args[1] = tb[1]
        /\ \E c \in Range(Calls(game)) : c.cb = "on_move" /\ c.args[1] = tr[1]
        /\ \A c \in Range(Calls(game)) : Len(c.args) >= 1 => c.args[1] # tn[1]

(***************************************************************************)
(* Claims on do_move, unmove and perft, checked on the perft machine.      *)
(***************************************************************************)
\* the position on which the call of frame number k was made: the argument
\* of the outermost call, or the successor held by the move its caller is at
CallPosition(k) ==
    IF k = 1 THEN last.parent ELSE stack[k - 1].moves[stack[k - 1].idx].bbg

\* C16: for a BitBoardGame P and a move m of P.moves(), do_move(m) followed
\* by unmove with the returned UnMove leaves board, turn, the four castling
\* flags and ep as in P: between two rounds of the loop of perft, gs is the
\* position the call was made on.
C16_DoMoveUnmoveRestores ==
    (stack # << >> /\ Top.pc = "loop") => game = CallPosition(Len(stack))

\* a call below the outermost one has made and unmade a move that changed
\* the position
C16_Witness ==
    /\ Len(stack) >= 2 /\ Top.pc = "loop" /\ Top.idx > 1
    /\ Top.moves[Top.idx - 1].bbg # game

RECURSIVE RefNodes(_, _)
RECURSIVE RefNodesFrom(_, _, _)
\* the sum over the moves ms[i], ms[i + 1], .. of the nodes d - 1 plies below
RefNodesFrom(ms, i, d) ==
    IF i > Len(ms) THEN 0
    ELSE RefNodes(ms[i].bbg, d - 1) + RefNodesFrom(ms, i + 1, d)

\* 1 at depth 0, the number of moves at depth 1, the sum over the moves of
\* the count one ply lower otherwise
RefNodes(g, d) ==
    IF d = 0 THEN 1
    ELSE IF d = 1 THEN Len(moves(g))
    ELSE RefNodesFrom(moves(g), 1, d)

\* the limit of the call that has just returned
ReturnedLimit == IF stack = << >> THEN last.args[1] ELSE Top.limit - 1

\* C17: perft(gs, d) returns 1 for d = 0, the number of moves of gs.moves()
\* for d = 1 and for d >= 2 the sum over the moves m of perft at d - 1 on the
\* position after do_move(m); when it returns, gs is as before the call.
C17_PerftRecursion ==
    ret # None =>
        /\ game = CallPosition(Len(stack) + 1)
        /\ ret[1] = RefNodes(game, ReturnedLimit)

\* the outermost call has returned at the largest limit with more than two
\* nodes for each move of the position
C17_Witness ==
    /\ stack = << >> /\ ret # None /\ last.args[1] = MaxLimit
    /\ ret[1] > Len(moves(game)) * 2

(***************************************************************************)
(* Claim on the absence of runtime errors in the generators.               *)
(***************************************************************************)
\* valid tags, one king per side, ep target on rank 3 or 6 when set
WellFormed(g) ==
    /\ \A s \in Sq : Tag(g.board, s) \in { 0, 1, 2, 3, 4, 5, 7, 9, 10, 11, 12, 13, 15 }
    /\ Cardinality(RefKings(g.board, TRUE)) = 1
    /\ Cardinality(RefKings(g.board, FALSE)) = 1
    /\ g.ep # None => Rank(g.ep[1]) \in { 2, 5 }

\* C20: on a well-formed position gen_moves and gen_moves_with_ep raise no
\* runtime error: every from and to index handed to the visitor, which is
\* also every result of an index addition or subtraction and every computed
\* shift amount, lies in 0..63, and so does the ep shift amount.
C20_IndicesInRange ==
    WellFormed(game) =>
        /\ game.ep # None => game.ep[1] \in Sq
        /\ \A c \in Range(Calls(game)) :
             /\ \A i \in 1 .. Len(c.args) : c.args[i] \in Sq
             /\ Len(c.args) >= 1 => CallTo(game, c) \in Sq

\* a well-formed position in which a pawn of the side to move steps on the
\* last rank of the board, next to the end of the index range
C20_Witness ==
    /\ WellFormed(game)
    /\ \E c \in Range(Calls(game)) :
         /\ c.cb = "on_move" /\ Kind(game.board, c.args[1]) = 4
         /\ c.args[2] \in (0 .. 7) \cup (56 .. 63)


(***************************************************************************)
(* The square-array game of board.rs.  pieces[y][x] holds rank y + 1 and   *)
(* file x (0 is the a-file); a packed index is y * 8 + x.                  *)
(***************************************************************************)
\* piece.rs: enum Piece
Pawn == 0

Knight == 1

Bishop == 2

Rook == 3

Queen == 4

King == 5

\* piece.rs: enum ColouredPiece
WhitePawn == 0

WhiteKing == 5

BlackPawn == 8

BlackKing == 13

ColouredPiece_piece(cp) == cp % 8

ColouredPiece_from_parts(col, p) == IF col = "White" THEN p ELSE p + 8

opt_is_black(v, none_val) == IF v = None THEN none_val ELSE v[1] >= 8

opt_is_white(v, none_val) == IF v = None THEN none_val ELSE v[1] < 8

opt_is_col(v, col, none_val) ==
    IF col = "White" THEN opt_is_white(v, none_val) ELSE opt_is_black(v, none_val)

invert(col) == IF col = "White" THEN "Black" ELSE "White"

legal_pos(x, y) == x < 8 /\ y < 8

unpack_index(packed) == << packed % 8, packed \div 8 >>

pack(x, y) == y * 8 + x

\* usize::MAX as far as TLC's 32-bit integers reach; the wrapped values are
\* only ever compared with 8
UsizeMax == 2147483647

\* a - b on usize without overflow checks
wrapping_sub(a, b) == IF a >= b THEN a - b ELSE UsizeMax - (b - a) + 1

Board_new == [ y \in 0 .. 7 |-> [ x \in 0 .. 7 |-> None ] ]

Glyph ==
    [ c \in { "P", "N", "B", "R", "Q", "K", "p", "n", "b", "r", "q", "k" } |->
        CASE c = "P" -> 0 [] c = "N" -> 1 [] c = "B" -> 2 [] c = "R" -> 3
          [] c = "Q" -> 4 [] c = "K" -> 5 [] c = "p" -> 8 [] c = "n" -> 9
          [] c = "b" -> 10 [] c = "r" -> 11 [] c = "q" -> 12 [] c = "k" -> 13 ]

\* the loop over the characters of line i of the placement; the result is
\* "ok", "none" (return None) or "panic" (index 8 of a rank)
RECURSIVE BoardLine(_, _, _, _)
BoardLine(chars, pieces, i, counter) ==
    IF chars = << >> THEN [ res |-> "ok", pieces |-> pieces ]
    ELSE IF counter > 8 THEN [ res |-> "none", pieces |-> pieces ]
    ELSE LET c == Head(chars)
         IN  IF c \in DOMAIN ToDigit
             THEN BoardLine(Tail(chars), pieces, i, counter + ToDigit[c])
             ELSE IF c \notin DOMAIN Glyph THEN [ res |-> "none", pieces |-> pieces ]
             ELSE IF counter > 7 THEN [ res |-> "panic", pieces |-> pieces ]
             ELSE BoardLine(Tail(chars),
                            [ pieces EXCEPT ![7 - i][counter] = Some(Glyph[c]) ],
                            i, counter + 1)

\* the loop over the lines that split('/') yields
RECURSIVE BoardLines(_, _, _)
BoardLines(lines, pieces, i) ==
    IF lines = << >> THEN [ res |-> "ok", pieces |-> pieces ]
    ELSE IF i >= 8 THEN [ res |-> "none", pieces |-> pieces ]
    ELSE LET r == BoardLine(Head(lines), pieces, i, 0)
         IN  IF r.res = "ok" THEN BoardLines(Tail(lines), r.pieces, i + 1) ELSE r

Board_from_fen(lines) == BoardLines(lines, Board_new, 0)

GsEpCol ==
    [ c \in { "a", "b", "c", "d", "e", "f", "g", "h" } |->
        CASE c = "a" -> 0 [] c = "b" -> 1 [] c = "c" -> 2 [] c = "d" -> 3
          [] c = "e" -> 4 [] c = "f" -> 5 [] c = "g" -> 6 [] c = "h" -> 7 ]

\* fen = [lines: the lines of the first field, each a sequence of characters,
\*        turn: the second field, castle: the characters of the third field,
\*        ep: the first character of the fourth field]
GameState_from_fen(fen) ==
    LET b == Board_from_fen(fen.lines)
    IN  IF b.res # "ok" \/ fen.turn \notin { "w", "b" } THEN None
        ELSE Some([ turn |-> IF fen.turn = "w" THEN "White" ELSE "Black",
                    board |-> [ pieces |-> b.pieces ],
                    meta |-> [ white_ks_castle |-> "K" \in fen.castle,
                               black_ks_castle |-> "k" \in fen.castle,
                               white_qs_castle |-> "Q" \in fen.castle,
                               black_qs_castle |-> "q" \in fen.castle,
                               enpasant_col |-> IF fen.ep \in DOMAIN GsEpCol
                                                THEN Some(GsEpCol[fen.ep]) ELSE None ] ])

FesMoveDet(from, to, promo, take, enpas, meta) ==
    [ from |-> from, to |-> to, promo |-> promo, take |-> take, enpas |-> enpas,
      meta |-> meta ]

push_basic(from, to, meta) == FesMoveDet(from, to, None, None, FALSE, meta)

push_take(from, to, take, meta) == FesMoveDet(from, to, None, take, FALSE, meta)

push_promo(from, to, promo, take, meta) == FesMoveDet(from, to, Some(promo), take, FALSE, meta)

push_enpas(from, to, meta) == FesMoveDet(from, to, None, None, TRUE, meta)

opt_piece(v) == IF v = None THEN None ELSE Some(ColouredPiece_piece(v[1]))

\* optionaly_add: the moves it pushes (none or one) and the value it returns
optionaly_add(g, col, old_x, old_y, new_x, new_y) ==
    IF legal_pos(new_x, new_y) /\ ~opt_is_col(g.board.pieces[new_y][new_x], col, FALSE)
    THEN LET take == opt_piece(g.board.pieces[new_y][new_x])
         IN  [ pushed |-> << push_take(pack(old_x, old_y), pack(new_x, new_y), take, g.meta) >>,
               ret |-> (take = None) ]
    ELSE [ pushed |-> << >>, ret |-> FALSE ]

\* let mut dist = 1; while self.optionaly_add(.., x + sx * dist, y + sy * dist, ..)
\* { dist += 1 }, where a step below zero wraps
RECURSIVE SlideWhile(_, _, _, _, _, _, _)
SlideWhile(g, col, x, y, sx, sy, dist) ==
    LET new_x == IF sx < 0 THEN wrapping_sub(x, dist) ELSE x + sx * dist
        new_y == IF sy < 0 THEN wrapping_sub(y, dist) ELSE y + sy * dist
        r == optionaly_add(g, col, x, y, new_x, new_y)
    IN  IF r.ret THEN r.pushed \o SlideWhile(g, col, x, y, sx, sy, dist + 1)
        ELSE r.pushed

rook_moves(g, col, x, y) ==
    SlideWhile(g, col, x, y, 1, 0, 1) \o SlideWhile(g, col, x, y, 0, 1, 1)
      \o SlideWhile(g, col, x, y, -1, 0, 1) \o SlideWhile(g, col, x, y, 0, -1, 1)

bishop_moves(g, col, x, y) ==
    SlideWhile(g, col, x, y, 1, 1, 1) \o SlideWhile(g, col, x, y, -1, 1, 1)
      \o SlideWhile(g, col, x, y, 1, -1, 1) \o SlideWhile(g, col, x, y, -1, -1, 1)

\* one optionaly_add call at the offset (dx, dy) whose value is dropped
StepAdd(g, col, x, y, dx, dy) ==
    optionaly_add(g, col, x, y,
                  IF dx < 0 THEN wrapping_sub(x, -dx) ELSE x + dx,
                  IF dy < 0 THEN wrapping_sub(y, -dy) ELSE y + dy).pushed

\* for di in 1..=2 { let dj = 3 - di; (+,+), (-,+), (+,-), (-,-) }
knight_moves(g, col, x, y) ==
    StepAdd(g, col, x, y, 1, 2) \o StepAdd(g, col, x, y, -1, 2)
      \o StepAdd(g, col, x, y, 1, -2) \o StepAdd(g, col, x, y, -1, -2)
      \o StepAdd(g, col, x, y, 2, 1) \o StepAdd(g, col, x, y, -2, 1)
      \o StepAdd(g, col, x, y, 2, -1) \o StepAdd(g, col, x, y, -2, -1)

king_moves(g, col, x, y) ==
    StepAdd(g, col, x, y, 1, 1) \o StepAdd(g, col, x, y, 1, 0)
      \o StepAdd(g, col, x, y, 1, -1) \o StepAdd(g, col, x, y, 0, 1)
      \o StepAdd(g, col, x, y, 0, -1) \o StepAdd(g, col, x, y, -1, 1)
      \o StepAdd(g, col, x, y, -1, 0) \o StepAdd(g, col, x, y, -1, -1)

\* the four promotions in the order they are pushed
PromoPushes(from, to, take, meta) ==
    << push_promo(from, to, Queen, take, meta), push_promo(from, to, Rook, take, meta),
       push_promo(from, to, Knight, take, meta), push_promo(from, to, Bishop, take, meta) >>

\* the capture block of a pawn toward file nx (x - 1 or x + 1) and rank ny;
\* guard is x > 0 or x < 7, ep_y the rank index ep captures start from and
\* promo_y the rank index promotions start from
PawnCapture(g, col, x, y, guard, nx, ny, ep_y, promo_y) ==
    LET is_ep == y = ep_y /\ g.meta.enpasant_col = Some(nx)
    IN  IF guard /\ (opt_is_col(g.board.pieces[ny][nx], invert(col), FALSE) \/ is_ep)
        THEN LET take == opt_piece(g.board.pieces[ny][nx])
                 from == pack(x, y)
                 to == pack(nx, ny)
             IN  IF y = promo_y THEN PromoPushes(from, to, take, g.meta)
                 ELSE IF is_ep THEN << push_enpas(from, to, g.meta) >>
                 ELSE << push_take(from, to, take, g.meta) >>
        ELSE << >>

\* the push block of a pawn: one step to rank ny, two steps to rank ny2 from
\* the rank index start_y
PawnPush(g, x, y, ny, ny2, start_y, promo_y) ==
    IF g.board.pieces[ny][x] = None
    THEN (IF y = promo_y THEN PromoPushes(pack(x, y), pack(x, ny), None, g.meta)
          ELSE << push_basic(pack(x, y), pack(x, ny), g.meta) >>)
         \o (IF y = start_y /\ g.board.pieces[ny2][x] = None
             THEN << push_basic(pack(x, y), pack(x, ny2), g.meta) >>
             ELSE << >>)
    ELSE << >>

\* the arm Some(WhitePawn)
white_pawn_moves(g, x, y) ==
    PawnCapture(g, "White", x, y, x > 0, x - 1, y + 1, 4, 6)
      \o PawnCapture(g, "White", x, y, x < 7, x + 1, y + 1, 4, 6)
      \o PawnPush(g, x, y, y + 1, y + 2, 1, 6)

\* the arm Some(BlackPawn)
black_pawn_moves(g, x, y) ==
    PawnCapture(g, "Black", x, y, x > 0, x - 1, y - 1, 3, 1)
      \o PawnCapture(g, "Black", x, y, x < 7, x + 1, y - 1, 3, 1)
      \o PawnPush(g, x, y, y - 1, y - 2, 6, 1)

\* the match arm of the piece cp on (x, y)
ArmMoves(g, cp, x, y) ==
    LET col == IF cp < 8 THEN "White" ELSE "Black"
        p == ColouredPiece_piece(cp)
    IN  CASE cp = WhitePawn -> white_pawn_moves(g, x, y)
          [] cp = BlackPawn -> black_pawn_moves(g, x, y)
          [] p = Knight -> knight_moves(g, col, x, y)
          [] p = Bishop -> bishop_moves(g, col, x, y)
          [] p = Rook -> rook_moves(g, col, x, y)
          [] p = Queen -> bishop_moves(g, col, x, y) \o rook_moves(g, col, x, y)
          [] p = King -> king_moves(g, col, x, y)

\* for y in 0..8 { for x in 0..8 { match .. } }: what the arms of one colour push
ScanMoves(g, col) ==
    Concat([ i \in 1 .. 64 |->
               LET v == g.board.pieces[(i - 1) \div 8][(i - 1) % 8]
               IN  IF v # None /\ opt_is_col(v, col, FALSE)
                   THEN ArmMoves(g, v[1], (i - 1) % 8, (i - 1) \div 8)
                   ELSE << >> ])

AnyTo(ms, lo, hi) == \E i \in 1 .. Len(ms) : ms[i].to >= lo /\ ms[i].to <= hi

\* one of the four castling blocks: y is the king's rank index, py the rank
\* index of the pawns that guard it, [lo, hi] the packed squares the other
\* side must not move to, pxs the guarded pawn files, exs the files to be empty
CastleBlock(g, right, other_moves, pawn, y, py, lo, hi, pxs, exs, to) ==
    IF /\ right
       /\ ~AnyTo(other_moves, lo, hi)
       /\ ~\E x \in pxs : g.board.pieces[py][x] = Some(pawn)
       /\ ~\E x \in exs : g.board.pieces[y][x] # None
    THEN << push_basic(pack(4, y), to, g.meta) >>
    ELSE << >>

\* white_moves at the end of get_preliminary_moves, given the scan of Black
white_moves_of(g, white_scan, black_scan) ==
    white_scan
      \o CastleBlock(g, g.meta.white_ks_castle, black_scan, BlackPawn, 0, 1, 4, 6,
                     4 .. 7, 5 .. 6, 6)
      \o CastleBlock(g, g.meta.white_qs_castle, black_scan, BlackPawn, 0, 1, 2, 4,
                     1 .. 4, 1 .. 3, 2)

\* black_moves at the end of get_preliminary_moves, given the list of White
black_moves_of(g, black_scan, white_moves) ==
    black_scan
      \o CastleBlock(g, g.meta.black_ks_castle, white_moves, WhitePawn, 7, 6, 60, 62,
                     4 .. 7, 5 .. 6, 62)
      \o CastleBlock(g, g.meta.black_qs_castle, white_moves, WhitePawn, 7, 6, 58, 60,
                     1 .. 4, 1 .. 3, 58)

get_preliminary_moves(g) ==
    IF g.turn = "White"
    THEN white_moves_of(g, ScanMoves(g, "White"), ScanMoves(g, "Black"))
    ELSE black_moves_of(g, ScanMoves(g, "Black"),
                        white_moves_of(g, ScanMoves(g, "White"), ScanMoves(g, "Black")))

\* the subtraction x - dist or y - dist of a sliding loop underflows before
\* the loop ends
RECURSIVE SlideUnderflows(_, _, _, _, _, _, _)
SlideUnderflows(g, col, x, y, sx, sy, dist) ==
    IF (sx < 0 /\ dist > x) \/ (sy < 0 /\ dist > y) THEN TRUE
    ELSE optionaly_add(g, col, x, y, x + sx * dist, y + sy * dist).ret
           /\ SlideUnderflows(g, col, x, y, sx, sy, dist + 1)

\* some subtraction in the match arm of the piece cp on (x, y) underflows
ArmUnderflows(g, cp, x, y) ==
    LET col == IF cp < 8 THEN "White" ELSE "Black"
        p == ColouredPiece_piece(cp)
        rook == SlideUnderflows(g, col, x, y, -1, 0, 1) \/ SlideUnderflows(g, col, x, y, 0, -1, 1)
        bishop == \/ SlideUnderflows(g, col, x, y, -1, 1, 1)
                  \/ SlideUnderflows(g, col, x, y, 1, -1, 1)
                  \/ SlideUnderflows(g, col, x, y, -1, -1, 1)
    IN  CASE p = Pawn -> FALSE
          [] p = Knight -> x < 2 \/ y < 2
          [] p = Bishop -> bishop
          [] p = Rook -> rook
          [] p = Queen -> bishop \/ rook
          [] p = King -> x < 1 \/ y < 1

\* get_preliminary_moves panics: a pawn on its last rank indexes rank 8 or
\* -1 of the board, or overflow checks are on and a subtraction underflows
PrelimPanics(g) ==
    \E y \in 0 .. 7, x \in 0 .. 7 :
        LET v == g.board.pieces[y][x]
        IN  /\ v # None
            /\ \/ v[1] = WhitePawn /\ y = 7
               \/ v[1] = BlackPawn /\ y = 0
               \/ overflow_checks /\ ArmUnderflows(g, v[1], x, y)

\* move_det, for a move whose from square holds a piece
move_det(g, mv) ==
    LET fx == unpack_index(mv.from)[1]
        fy == unpack_index(mv.from)[2]
        tx == unpack_index(mv.to)[1]
        ty == unpack_index(mv.to)[2]
        p0 == g.board.pieces
        moved == ColouredPiece_piece(p0[fy][fx][1])
        meta == [ white_qs_castle |->
                    IF mv.from = 0 \/ mv.to = 0 \/ mv.from = 4
                    THEN FALSE ELSE g.meta.white_qs_castle,
                  white_ks_castle |->
                    IF mv.from = 4 \/ mv.to = 4 \/ mv.from = 4
                    THEN FALSE ELSE g.meta.white_ks_castle,
                  black_qs_castle |->
                    IF mv.from = 56 \/ mv.to = 56 \/ mv.from = 60
                    THEN FALSE ELSE g.meta.black_qs_castle,
                  black_ks_castle |->
                    IF mv.from = 63 \/ mv.to = 63 \/ mv.from = 60
                    THEN FALSE ELSE g.meta.black_ks_castle,
                  enpasant_col |->
                    IF moved = Pawn /\ ((fy = 1 /\ ty = 3) \/ (fy = 6 /\ ty = 4))
                    THEN Some(fx) ELSE None ]
        rook == Some(ColouredPiece_from_parts(g.turn, Rook))
        p1 == IF moved = King /\ fx = 4 /\ tx = 6
              THEN [ p0 EXCEPT ![fy][5] = rook, ![fy][7] = None ]
              ELSE IF moved = King /\ fx = 4 /\ tx = 2
              THEN [ p0 EXCEPT ![fy][3] = rook, ![fy][0] = None ]
              ELSE p0
        p2 == IF mv.enpas /\ ty = 2 THEN [ p1 EXCEPT ![3][tx] = None ]
              ELSE IF mv.enpas /\ ty = 5 THEN [ p1 EXCEPT ![4][tx] = None ]
              ELSE p1
        p3 == [ p2 EXCEPT ![ty][tx] = IF mv.promo # None
                                      THEN Some(ColouredPiece_from_parts(g.turn, mv.promo[1]))
                                      ELSE p2[fy][fx] ]
        p4 == [ p3 EXCEPT ![fy][fx] = None ]
    IN  [ turn |-> invert(g.turn), board |-> [ pieces |-> p4 ], meta |-> meta ]

\* unmove_det, for a move whose to square holds a piece
unmove_det(g, mv) ==
    LET fx == unpack_index(mv.from)[1]
        fy == unpack_index(mv.from)[2]
        tx == unpack_index(mv.to)[1]
        ty == unpack_index(mv.to)[2]
        turn == invert(g.turn)
        p0 == g.board.pieces
        moved == ColouredPiece_piece(p0[ty][tx][1])
        rook == Some(ColouredPiece_from_parts(turn, Rook))
        p1 == IF moved = King /\ fx = 4 /\ tx = 6
              THEN [ p0 EXCEPT ![fy][7] = rook, ![fy][5] = None ]
              ELSE IF moved = King /\ fx = 4 /\ tx = 2
              THEN [ p0 EXCEPT ![fy][0] = rook, ![fy][3] = None ]
              ELSE p0
        p2 == IF mv.enpas /\ ty = 2 THEN [ p1 EXCEPT ![3][tx] = Some(WhitePawn) ]
              ELSE IF mv.enpas /\ ty = 5 THEN [ p1 EXCEPT ![4][tx] = Some(BlackPawn) ]
              ELSE p1
        p3 == [ p2 EXCEPT ![fy][fx] = IF mv.promo # None
                                      THEN Some(ColouredPiece_from_parts(turn, Pawn))
                                      ELSE p2[ty][tx] ]
        p4 == [ p3 EXCEPT ![ty][tx] = IF mv.take # None
                                      THEN Some(ColouredPiece_from_parts(invert(turn), mv.take[1]))
                                      ELSE None ]
    IN  [ turn |-> turn, board |-> [ pieces |-> p4 ], meta |-> mv.meta ]

\* validate_move after self.move_det(mv), on the state moved
validate_moved(moved, mv) ==
    IF PrelimPanics(moved) THEN [ panic |-> TRUE, a |-> FALSE, gs |-> moved ]
    ELSE [ panic |-> FALSE,
           a |-> ~\E m \in Range(get_preliminary_moves(moved)) : m.take = Some(King),
           gs |-> unmove_det(moved, mv) ]

\* validate_move: its value, the state it leaves in self, and whether it panics
validate_move(g, mv) ==
    IF g.board.pieces[unpack_index(mv.from)[2]][unpack_index(mv.from)[1]] = None
    THEN [ panic |-> TRUE, a |-> FALSE, gs |-> g ]
    ELSE validate_moved(move_det(g, mv), mv)

\* one round of the filter: acc holds the moves kept so far, the state of
\* self and whether a round has panicked
FilterOne(acc, mv) ==
    CHOOSE res \in
      { [ panic |-> v.panic,
          moves |-> IF v.a THEN Append(acc.moves, mv) ELSE acc.moves,
          gs |-> v.gs ] : v \in { validate_move(acc.gs, mv) } } : TRUE

\* moves.into_iter().filter(|mov| self.validate_move(mov)).collect() over
\* ms[lo] .. ms[hi] in order; the range is folded by halves, the left half
\* first, so that the evaluation nests no deeper than the logarithm of its
\* length
RECURSIVE FilterMoves(_, _, _, _)
FilterMoves(acc, ms, lo, hi) ==
    IF acc.panic \/ lo > hi THEN acc
    ELSE IF lo = hi THEN FilterOne(acc, ms[lo])
    ELSE CHOOSE res \in
           { FilterMoves(left, ms, ((lo + hi) \div 2) + 1, hi) :
               left \in { FilterMoves(acc, ms, lo, (lo + hi) \div 2) } } : TRUE

\* GameState::moves: the list it returns, the state it leaves in self and
\* whether it panics
GameState_moves(g) ==
    IF PrelimPanics(g) THEN [ panic |-> TRUE, moves |-> << >>, gs |-> g ]
    ELSE CHOOSE res \in
           { FilterMoves(acc, ms, 1, Len(ms)) :
               acc \in { [ panic |-> FALSE, moves |-> << >>, gs |-> g ] },
               ms \in { get_preliminary_moves(g) } } : TRUE

(***************************************************************************)
(* The walk of the square-array game: moves() followed by move_det of one  *)
(* of the moves it returned.                                               *)
(***************************************************************************)
\* 4k3/8/8/8/8/8/8/4K2R w K -
GsFenKingRook ==
    [ lines |-> << << "4", "k", "3" >>, << "8" >>, << "8" >>, << "8" >>, << "8" >>,
                   << "8" >>, << "8" >>, << "4", "K", "2", "R" >> >>,
      turn |-> "w", castle |-> { "K" }, ep |-> "-" ]

\* the colour mirror of GsFenKingRook
\* 4k2r/8/8/8/8/8/8/4K3 b k -
GsFenKingRookMirror ==
    [ lines |-> << << "4", "k", "2", "r" >>, << "8" >>, << "8" >>, << "8" >>, << "8" >>,
                   << "8" >>, << "8" >>, << "4", "K", "3" >> >>,
      turn |-> "b", castle |-> { "k" }, ep |-> "-" ]

\* lib.rs, tests::perft_pos3
\* 8/2p5/3p4/KP5r/1R3p1k/8/4P1P1/8 w - -
GsFenPos3 ==
    [ lines |-> << << "8" >>, << "2", "p", "5" >>, << "3", "p", "4" >>,
                   << "K", "P", "5", "r" >>, << "1", "R", "3", "p", "1", "k" >>, << "8" >>,
                   << "4", "P", "1", "P", "1" >>, << "8" >> >>,
      turn |-> "w", castle |-> { }, ep |-> "-" ]

GsStartFens == { GsFenKingRook, GsFenKingRookMirror, GsFenPos3 }

InitGS ==
    /\ game \in { GameState_from_fen(f)[1] : f \in GsStartFens }
    /\ visitor = "GameState"
    /\ depth = 0
    /\ last = [ cb |-> "from_fen", args |-> << >>, parent |-> game ]
    /\ stack = << >>
    /\ ret = None
    /\ overflow_checks \in BOOLEAN

\* gs.moves() and move_det of one of the moves returned, on the state that
\* moves() has left in gs
GsMoveDet ==
    /\ visitor = "GameState"
    /\ depth < MaxDepth
    /\ \E r \in { GameState_moves(game) } :
         /\ ~r.panic
         /\ \E m \in Range(r.moves) :
              /\ game' = move_det(r.gs, m)
              /\ last' = [ cb |-> "move_det", args |-> << m.from, m.to >>, parent |-> game ]
    /\ depth' = depth + 1
    /\ UNCHANGED << visitor, stack, ret, overflow_checks >>

NextGS == GsMoveDet

SpecGS == InitGS /\ [][NextGS]_vars

(***************************************************************************)
(* lib::perft over the square-array game.  The impl of game::ChessGame for *)
(* GameState is not part of the sources: do_move and unmove are taken to   *)
(* be move_det and unmove_det, the apply and undo of the specification.    *)
(***************************************************************************)
GameState_do_move(g, m) == [ gs |-> move_det(g, m), un |-> m ]

GameState_unmove(g, un) == unmove_det(g, un)

\* perft on GameState: whether it panics, the value it returns and the state
\* it leaves in gs
RECURSIVE perft_gs(_, _)
\* gs.unmove(&unmov) after total += perft(gs, limit - 1), whose outcome is sub
PerftGsUnmove(acc, sub, unmov) ==
    IF sub.panic THEN [ panic |-> TRUE, n |-> 0, gs |-> sub.gs ]
    ELSE [ panic |-> FALSE, n |-> acc.n + sub.n, gs |-> GameState_unmove(sub.gs, unmov) ]

\* total += perft(gs, limit - 1), on the outcome d of do_move
PerftGsCall(acc, d, limit) ==
    CHOOSE res \in { PerftGsUnmove(acc, sub, d.un) :
                       sub \in { perft_gs(d.gs, limit - 1) } } : TRUE

\* one round of the loop: let unmov = gs.do_move(&mov); ...; acc holds
\* total, the state of gs and whether a round has panicked
PerftGsOne(acc, mv, limit) ==
    CHOOSE res \in { PerftGsCall(acc, d, limit) :
                       d \in { GameState_do_move(acc.gs, mv) } } : TRUE

\* for mov in moves { ... } over ms[lo] .. ms[hi] in order, folded by halves
\* as FilterMoves is
RECURSIVE PerftGsLoop(_, _, _, _, _)
PerftGsLoop(acc, ms, lo, hi, limit) ==
    IF acc.panic \/ lo > hi THEN acc
    ELSE IF lo = hi THEN PerftGsOne(acc, ms[lo], limit)
    ELSE CHOOSE res \in
           { PerftGsLoop(left, ms, ((lo + hi) \div 2) + 1, hi, limit) :
               left \in { PerftGsLoop(acc, ms, lo, (lo + hi) \div 2, limit) } } : TRUE

\* the two branches of perft that call gs.moves(), on its outcome r
PerftGsMoves(r, limit) ==
    IF r.panic THEN [ panic |-> TRUE, n |-> 0, gs |-> r.gs ]
    ELSE IF limit = 1 THEN [ panic |-> FALSE, n |-> Len(r.moves), gs |-> r.gs ]
    ELSE CHOOSE res \in
           { PerftGsLoop(acc, r.moves, 1, Len(r.moves), limit) :
               acc \in { [ panic |-> FALSE, n |-> 0, gs |-> r.gs ] } } : TRUE

perft_gs(g, limit) ==
    IF limit = 0 THEN [ panic |-> FALSE, n |-> 1, gs |-> g ]
    ELSE CHOOSE res \in { PerftGsMoves(r, limit) : r \in { GameState_moves(g) } } : TRUE

(***************************************************************************)
(* Claims on the square-array game.                                        *)
(***************************************************************************)
\* the tag of the reference notions for a square of the array board
RefTagOf(v) ==
    IF v = None THEN 0
    ELSE << 4, 5, 1, 2, 3, 7 >>[ColouredPiece_piece(v[1]) + 1] + (IF v[1] < 8 THEN 8 ELSE 0)

\* the array board as the four planes of tags, square y * 8 + x
RefBoard(g) ==
    [ i \in 0 .. 3 |->
        { s \in Sq : (RefTagOf(g.board.pieces[s \div 8][s % 8]) \div (2 ^ i)) % 2 = 1 } ]

\* the board after the piece on p has gone to s; promo is a piece type tag
\* or 0; a pawn that changes file onto an empty square takes en passant
RefApply(b, p, s, promo) ==
    LET tag == IF promo = 0 THEN Tag(b, p) ELSE promo + (IF IsWhite(b, p) THEN 8 ELSE 0)
        taken == IF Kind(b, p) = 4 /\ File(s) # File(p) /\ Kind(b, s) = 0
                 THEN Rank(p) * 8 + File(s) ELSE s
    IN  SetTag(clear(clear(clear(b, p), taken), s), s, tag)

\* the piece on p may go to s by the rules of its movement, king safety and
\* castling apart; ep is None or Some(the en-passant target square)
RefPseudo(b, white, ep, p, s) ==
    LET fwd == IF white THEN 8 ELSE -8
        own(q) == Kind(b, q) # 0 /\ IsWhite(b, q) = white
        enemy(q) == Kind(b, q) # 0 /\ IsWhite(b, q) # white
    IN  /\ own(p) /\ ~own(s)
        /\ IF Kind(b, p) = 4
           THEN \/ s = p + fwd /\ Kind(b, s) = 0
                \/ /\ s = p + 2 * fwd /\ Rank(p) = (IF white THEN 1 ELSE 6)
                   /\ Kind(b, p + fwd) = 0 /\ Kind(b, s) = 0
                \/ RefAttacks(b, p, s) /\ enemy(s)
                \/ /\ RefAttacks(b, p, s) /\ ep = Some(s) /\ Kind(b, s) = 0
                   /\ Kind(b, s - fwd) = 4 /\ enemy(s - fwd)
           ELSE RefAttacks(b, p, s)

\* the promotions of a move of the piece on p to s, as move_det names them
RefPromos(b, p, s) ==
    IF Kind(b, p) = 4 /\ Rank(s) \in { 0, 7 }
    THEN { Some(Queen), Some(Rook), Some(Knight), Some(Bishop) }
    ELSE { None }

RefPromoTag(promo) ==
    IF promo = None THEN 0
    ELSE CASE promo[1] = Queen -> 3 [] promo[1] = Rook -> 2
           [] promo[1] = Bishop -> 1 [] promo[1] = Knight -> 5

\* the side to move may castle toward the rook on home + 3 (dir = 1) or on
\* home - 4 (dir = -1): right held, king and rook on their squares, the
\* squares between them empty, the king's square and the two it crosses
\* not attacked
RefCastle(b, white, right, dir) ==
    LET home == IF white THEN 4 ELSE 60
        corner == IF dir = 1 THEN home + 3 ELSE home - 4
    IN  /\ right
        /\ Kind(b, home) = 7 /\ IsWhite(b, home) = white
        /\ Kind(b, corner) = 2 /\ IsWhite(b, corner) = white
        /\ \A s \in Between(home, corner) : Kind(b, s) = 0
        /\ \A s \in { home, home + dir, home + 2 * dir } : ~RefAttacked(b, ~white, s)

\* the legal moves of the piece on p, castling apart, as triples
\* << from, to, promo >>
RefMovesOf(b, white, ep, p) ==
    UNION { { << p, s, pr >> : pr \in { q \in RefPromos(b, p, s) :
                  ~RefInCheck(RefApply(b, p, s, RefPromoTag(q)), white) } } :
              s \in { q \in Sq : RefPseudo(b, white, ep, p, q) } }

\* the legal moves of the position
RefLegalOn(b, white, ep, ks, qs) ==
    UNION { RefMovesOf(b, white, ep, p) :
              p \in { q \in Sq : Kind(b, q) # 0 /\ IsWhite(b, q) = white } }
      \cup { << IF white THEN 4 ELSE 60, (IF white THEN 4 ELSE 60) + 2, None >> :
               x \in { d \in { 1 } : RefCastle(b, white, ks, d) } }
      \cup { << IF white THEN 4 ELSE 60, (IF white THEN 4 ELSE 60) - 2, None >> :
               x \in { d \in { -1 } : RefCastle(b, white, qs, d) } }

RefLegalMoves(g) ==
    RefLegalOn(RefBoard(g), g.turn = "White",
               IF g.meta.enpasant_col = None THEN None
               ELSE Some((IF g.turn = "White" THEN 40 ELSE 16) + g.meta.enpasant_col[1]),
               IF g.turn = "White" THEN g.meta.white_ks_castle ELSE g.meta.black_ks_castle,
               IF g.turn = "White" THEN g.meta.white_qs_castle ELSE g.meta.black_qs_castle)

MoveTriples(ms) == { << ms[i].from, ms[i].to, ms[i].promo >> : i \in 1 .. Len(ms) }

\* the counts asserted by tests::perft_pos3 up to depth 3
Pos3Counts == << 14, 191, 2812 >>

\* C18: in a build whose arithmetic wraps, GameState::moves() returns
\* exactly the legal moves of the position, each once, and perft over
\* GameState gives the published counts: 14, 191 and 2812 from position 3.
C18_GameStateMovesLegal ==
    ~overflow_checks =>
        /\ \E r \in { GameState_moves(game) } :
             /\ ~r.panic
             /\ MoveTriples(r.moves) = RefLegalMoves(game)
             /\ Cardinality(MoveTriples(r.moves)) = Len(r.moves)
        /\ (depth = 0 /\ game = GameState_from_fen(GsFenPos3)[1]) =>
             \A d \in 1 .. 3 :
                 perft_gs(game, d) = [ panic |-> FALSE, n |-> Pos3Counts[d], gs |-> game ]

\* the colour mirror: ranks flipped, colours, side to move and rights swapped
Mirror(g) ==
    [ turn |-> invert(g.turn),
      board |-> [ pieces |-> [ y \in 0 .. 7 |-> [ x \in 0 .. 7 |->
                    IF g.board.pieces[7 - y][x] = None THEN None
                    ELSE Some((g.board.pieces[7 - y][x][1] + 8) % 16) ] ] ],
      meta |-> [ white_ks_castle |-> g.meta.black_ks_castle,
                 black_ks_castle |-> g.meta.white_ks_castle,
                 white_qs_castle |-> g.meta.black_qs_castle,
                 black_qs_castle |-> g.meta.white_qs_castle,
                 enpasant_col |-> g.meta.enpasant_col ] ]

\* C19: in a build whose arithmetic wraps, perft over GameState is the same
\* on a position and on its colour mirror, at every depth up to 3.
C19_MirrorSymmetry ==
    (depth = 0 /\ ~overflow_checks) =>
        \A d \in 1 .. 3 :
            \E r \in { perft_gs(game, d) }, rm \in { perft_gs(Mirror(game), d) } :
                ~r.panic /\ ~rm.panic /\ r.n = rm.n


(***************************************************************************)
(* from_fen on the text of a FEN.  A text is the record of its first four  *)
(* fields after trim().split(" "), each the sequence of its characters; a  *)
(* field that is missing or empty is << >>.                                *)
(***************************************************************************)
\* the start position
\* rnbqkbnr/pppppppp/8/8/8/8/PPPPPPPP/RNBQKBNR
FenBoardStart ==
    <<
        "r", "n", "b", "q", "k", "b", "n", "r", "/", "p", "p", "p", "p", "p", "p", "p",
        "p", "/", "8", "/", "8", "/", "8", "/", "8", "/", "P", "P", "P", "P", "P", "P",
        "P", "P", "/", "R", "N", "B", "Q", "K", "B", "N", "R" >>

\* position 3
\* 8/2p5/3p4/KP5r/1R3p1k/8/4P1P1/8
FenBoardPos3 ==
    <<
        "8", "/", "2", "p", "5", "/", "3", "p", "4", "/", "K", "P", "5", "r", "/", "1",
        "R", "3", "p", "1", "k", "/", "8", "/", "4", "P", "1", "P", "1", "/", "8" >>

\* position 3 without its last rank: 56 squares
\* 8/2p5/3p4/KP5r/1R3p1k/8/4P1P1
FenBoardSevenRanks ==
    <<
        "8", "/", "2", "p", "5", "/", "3", "p", "4", "/", "K", "P", "5", "r", "/", "1",
        "R", "3", "p", "1", "k", "/", "8", "/", "4", "P", "1", "P", "1" >>

\* nine empty ranks: 72 squares
\* 8/8/8/8/8/8/8/8/8
FenBoardNineRanks ==
    <<
        "8", "/", "8", "/", "8", "/", "8", "/", "8", "/", "8", "/", "8", "/", "8", "/",
        "8" >>

\* position 3 with nine squares in the first rank and seven in the second
\* 9/2p4/3p4/KP5r/1R3p1k/8/4P1P1/8
FenBoardRaggedRanks ==
    <<
        "9", "/", "2", "p", "4", "/", "3", "p", "4", "/", "K", "P", "5", "r", "/", "1",
        "R", "3", "p", "1", "k", "/", "8", "/", "4", "P", "1", "P", "1", "/", "8" >>

\* the start position without separators
\* rnbqkbnrpppppppp8888PPPPPPPPRNBQKBNR
FenBoardOneRank ==
    <<
        "r", "n", "b", "q", "k", "b", "n", "r", "p", "p", "p", "p", "p", "p", "p", "p",
        "8", "8", "8", "8", "P", "P", "P", "P", "P", "P", "P", "P", "R", "N", "B", "Q",
        "K", "B", "N", "R" >>

\* position 3 with the glyph x
\* 8/2p5/3x4/KP5r/1R3p1k/8/4P1P1/8
FenBoardGlyph ==
    <<
        "8", "/", "2", "p", "5", "/", "3", "x", "4", "/", "K", "P", "5", "r", "/", "1",
        "R", "3", "p", "1", "k", "/", "8", "/", "4", "P", "1", "P", "1", "/", "8" >>

\* the start position and a ninth rank holding a king: a piece on square 65
\* rnbqkbnr/pppppppp/8/8/8/8/PPPPPPPP/RNBQKBNR/K
FenBoardOverlong ==
    <<
        "r", "n", "b", "q", "k", "b", "n", "r", "/", "p", "p", "p", "p", "p", "p", "p",
        "p", "/", "8", "/", "8", "/", "8", "/", "8", "/", "P", "P", "P", "P", "P", "P",
        "P", "P", "/", "R", "N", "B", "Q", "K", "B", "N", "R", "/", "K" >>

\* the second field as the match of from_fen sees it: "w", "b" or another text
FenTurn(field) ==
    IF field = << "w" >> THEN "w" ELSE IF field = << "b" >> THEN "b" ELSE "?"

\* fen.trim().split(" "), fenboard.replace('/', ""), castle_rights.contains(..)
\* and fen_parts.next()?.chars().next(): the record from_fen works on
FenFields(text) ==
    [ placement |-> SelectSeq(text.board, LAMBDA c : c # "/"),
      turn |-> FenTurn(text.turn),
      castle |-> Range(text.castle),
      ep |-> IF text.ep = << >> THEN "" ELSE text.ep[1] ]

\* from_fen panics: `63 - counter` underflows on a piece glyph met after
\* square 64, in a build with overflow checks; the fields are read first
from_fen_panics(fen) ==
    /\ overflow_checks
    /\ fen.turn \in { "w", "b" } /\ fen.ep # ""
    /\ FenLoop(fen.placement, EmptyBoard, 0).res = "panic"

FenBoards ==
    { FenBoardStart, FenBoardPos3, FenBoardSevenRanks, FenBoardNineRanks,
      FenBoardRaggedRanks, FenBoardOneRank, FenBoardGlyph, FenBoardOverlong }

FenTurns == { << "w" >>, << "b" >>, << "W" >>, << "w", "b" >> }

FenCastles == { << "-" >>, << "K", "Q", "k", "q" >>, << "K", "x" >>, << "A", "H" >> }

FenEps == { << "-" >>, << "e", "3" >>, << "e", "9" >>, << "e" >>, << "x" >>, << >> }

FenTexts ==
    { [ board |-> b, turn |-> t, castle |-> c, ep |-> e ] :
        b \in FenBoards, t \in FenTurns, c \in FenCastles, e \in FenEps }

\* a text waits to be parsed: it is the argument of the pending call
InitFen ==
    /\ game = None
    /\ visitor = "Fen"
    /\ depth = 0
    /\ \E text \in FenTexts : last = [ cb |-> "from_fen", args |-> << text >>, parent |-> None ]
    /\ stack = << >>
    /\ ret = None
    /\ overflow_checks \in BOOLEAN

\* BitBoardGame::from_fen(text): ret is Some of whether it panics and of the
\* value it returns
FenParse ==
    /\ visitor = "Fen"
    /\ ret = None
    /\ \E fen \in { FenFields(last.args[1]) } :
         /\ ret' = Some([ panic |-> from_fen_panics(fen),
                          value |-> IF from_fen_panics(fen) THEN None ELSE from_fen(fen) ])
         /\ game' = IF from_fen_panics(fen) THEN None ELSE from_fen(fen)
    /\ depth' = depth + 1
    /\ UNCHANGED << visitor, last, stack, overflow_checks >>

NextFen == FenParse

SpecFen == InitFen /\ [][NextFen]_vars

\* the ranks of a placement: the texts between the separators
RECURSIVE RefRanks(_, _)
RefRanks(chars, cur) ==
    IF chars = << >> THEN << cur >>
    ELSE IF Head(chars) = "/" THEN << cur >> \o RefRanks(Tail(chars), << >>)
    ELSE RefRanks(Tail(chars), Append(cur, Head(chars)))

\* the squares a rank describes, -1 when it holds an unknown character
RECURSIVE RefRankWidth(_)
RefRankWidth(rank) ==
    IF rank = << >> THEN 0
    ELSE LET c == Head(rank)
             w == IF c \in { "1", "2", "3", "4", "5", "6", "7", "8" } THEN ToDigit[c]
                  ELSE IF c \in { "P", "N", "B", "R", "Q", "K", "p", "n", "b", "r", "q", "k" }
                  THEN 1 ELSE -1
             rest == RefRankWidth(Tail(rank))
         IN  IF w < 0 \/ rest < 0 THEN -1 ELSE w + rest

\* a FEN text is well formed: eight ranks of eight squares, side w or b, a
\* castling field that is - or made of K, Q, k, q, an en-passant field that
\* is - or a square of the third or sixth rank
RefWellFormed(text) ==
    /\ Len(RefRanks(text.board, << >>)) = 8
    /\ \A i \in 1 .. Len(RefRanks(text.board, << >>)) :
           RefRankWidth(RefRanks(text.board, << >>)[i]) = 8
    /\ text.turn \in { << "w" >>, << "b" >> }
    /\ text.castle # << >>
    /\ \/ text.castle = << "-" >>
       \/ Range(text.castle) \subseteq { "K", "Q", "k", "q" }
    /\ \/ text.ep = << "-" >>
       \/ /\ Len(text.ep) = 2
          /\ text.ep[1] \in { "a", "b", "c", "d", "e", "f", "g", "h" }
          /\ text.ep[2] \in { "3", "6" }

\* C21: from_fen returns None, and does not panic, on every text that is
\* not a well-formed FEN.
C21_MalformedFenIsNone ==
    (visitor = "Fen" /\ ret # None /\ ~RefWellFormed(last.args[1])) =>
        ~ret[1].panic /\ ret[1].value = None

C21_Witness ==
    /\ visitor = "Fen" /\ ret # None
    /\ ~RefWellFormed(last.args[1])
    /\ last.args[1].board = FenBoardGlyph
    /\ ret[1].value = None


(***************************************************************************)
(* The counting visitor driven over a position.  perf.rs calls             *)
(* gs.proc_movs(&mut cont), which is not part of the sources: it is taken  *)
(* to dispatch on the fields of the game as moves() does, to gen_moves or  *)
(* gen_moves_with_ep with the visitor given.                               *)
(***************************************************************************)
PerftMove(target) == [ depth_target |-> target, depth |-> 0, counter |-> 0 ]

\* the generator run on g with the counting visitor v: v after the callbacks
\* cs[lo] .. cs[hi] in order, folded by halves
RECURSIVE PerftCallbacks(_, _, _, _, _)
\* self.depth += 1; if self.depth == self.depth_target { self.counter += 1 }
\* else { b.gen_moves(self) } self.depth -= 1, for the callback c
PerftCallback(v, g, c) ==
    IF v.depth + 1 = v.depth_target
    THEN [ v EXCEPT !.counter = @ + 1 ]
    ELSE CHOOSE res \in
           { [ PerftCallbacks(down, next, cs, 1, Len(cs)) EXCEPT !.depth = @ - 1 ] :
               down \in { [ v EXCEPT !.depth = @ + 1 ] },
               next \in { PerftVisit(g, c) },
               cs \in { Calls(PerftVisit(g, c)) } } : TRUE

PerftCallbacks(v, g, cs, lo, hi) ==
    IF lo > hi THEN v
    ELSE IF lo = hi THEN PerftCallback(v, g, cs[lo])
    ELSE CHOOSE res \in
           { PerftCallbacks(left, g, cs, ((lo + hi) \div 2) + 1, hi) :
               left \in { PerftCallbacks(v, g, cs, lo, (lo + hi) \div 2) } } : TRUE

proc_movs(g, v) ==
    CHOOSE res \in { PerftCallbacks(v, g, cs, 1, Len(cs)) : cs \in { Calls(g) } } : TRUE

(***************************************************************************)
(* examples/perf.rs: the command loop of the perft program.                *)
(***************************************************************************)
\* str::parse::<usize>() of a token of decimal digits: Some(value), None for
\* Err; the tokens of the model have at most two characters
ParseUsize(tok) ==
    IF tok = << >> \/ \E i \in 1 .. Len(tok) : tok[i] \notin DOMAIN ToDigit THEN None
    ELSE IF Len(tok) = 1 THEN Some(ToDigit[tok[1]])
    ELSE Some(ToDigit[tok[1]] * 10 + ToDigit[tok[2]])

\* format!("{:x}", n)
RECURSIVE Hex(_)
Hex(n) ==
    LET digit == << "0", "1", "2", "3", "4", "5", "6", "7", "8", "9",
                    "a", "b", "c", "d", "e", "f" >>[(n % 16) + 1]
    IN  IF n < 16 THEN << digit >> ELSE Append(Hex(n \div 16), digit)

\* BitBoardGameMove::to_uci
to_uci(m) ==
    LET ox == << "h", "g", "f", "e", "d", "c", "b", "a" >>[(m.mov % 8) + 1]
        oy == << "1", "2", "3", "4", "5", "6", "7", "8" >>[((m.mov \div 8) % 8) + 1]
        nx == << "h", "g", "f", "e", "d", "c", "b", "a" >>[((m.mov \div 64) % 8) + 1]
        ny == << "1", "2", "3", "4", "5", "6", "7", "8" >>[((m.mov \div 512) % 8) + 1]
    IN  << ox, oy, nx, ny, ",", " " >> \o Hex(m.mov)

\* perft_div: the total it prints, for limit >= 1 or a position without moves
perft_div(g, limit) == PerftSum(g, moves(g), 1, limit)

\* the state of the process: running the loop, panicked, exited by quit, or
\* inside a call that does not return; out is what the last command printed
Process(status, out) == Some([ status |-> status, out |-> out ])

\* the number of lines the model feeds to the loop
MaxLines == 2

\* the start position and position 3, well formed; position 3 with an
\* unknown glyph, with the en-passant field x, and without its last rank
CliFens ==
    { [ board |-> FenBoardStart, turn |-> << "w" >>, castle |-> << "K", "Q", "k", "q" >>,
        ep |-> << "-" >> ],
      [ board |-> FenBoardPos3, turn |-> << "w" >>, castle |-> << "-" >>, ep |-> << "-" >> ],
      [ board |-> FenBoardGlyph, turn |-> << "w" >>, castle |-> << "-" >>, ep |-> << "-" >> ],
      [ board |-> FenBoardPos3, turn |-> << "w" >>, castle |-> << "-" >>, ep |-> << "x" >> ],
      [ board |-> FenBoardSevenRanks, turn |-> << "b" >>, castle |-> << "-" >>,
        ep |-> << "-" >> ] }

\* the token after perft or perft2; << >> when the line has none
CliDepths == { << "1" >>, << "0" >>, << "x" >>, << "-", "1" >>, << >> }

\* the tokens after move
CliMoves == { << >>, << << "e", "2", "e", "4" >> >>, << << "z" >>, << "e", "2", "e", "4" >> >> }

InitCli ==
    /\ game = from_fen(FenStart)[1]
    /\ visitor = "Cli"
    /\ depth = 0
    /\ last = [ cb |-> "main", args |-> << >>, parent |-> game ]
    /\ stack = << >>
    /\ ret = Process("running", << >>)
    /\ overflow_checks \in BOOLEAN

\* a line is read while the loop runs
CliReads == visitor = "Cli" /\ ret[1].status = "running" /\ depth < MaxLines

\* "fen" => { gs = BitBoardGame::from_fen(&fen).unwrap(); }
CliFen ==
    /\ CliReads
    /\ \E text \in CliFens :
         /\ last' = [ cb |-> "fen", args |-> << text >>, parent |-> game ]
         /\ \E fen \in { FenFields(text) } :
              IF from_fen_panics(fen) \/ from_fen(fen) = None
              THEN game' = game /\ ret' = Process("panicked", << >>)
              ELSE game' = from_fen(fen)[1] /\ ret' = Process("running", << >>)
    /\ depth' = depth + 1
    /\ UNCHANGED << visitor, stack, overflow_checks >>

\* the moves of gs whose to_uci is the token, in order
CliMatches(g, tok) == SelectSeq(moves(g), LAMBDA m : to_uci(m) = tok)

\* 'uci: for ucimov in parts { .. }: the position and the output after the
\* tokens toks[i] ..
RECURSIVE CliMoveLoop(_, _, _)
CliMoveLoop(g, toks, i) ==
    IF i > Len(toks) THEN [ gs |-> g, out |-> << >> ]
    ELSE IF CliMatches(g, toks[i]) # << >>
    THEN CliMoveLoop(do_move(g, CliMatches(g, toks[i])[1]).gs, toks, i + 1)
    ELSE [ gs |-> g, out |-> << "warn: unknown uci move" >> ]

\* "move" => { .. }
CliMove ==
    /\ CliReads
    /\ \E toks \in CliMoves :
         /\ last' = [ cb |-> "move", args |-> toks, parent |-> game ]
         /\ \E r \in { CliMoveLoop(game, toks, 1) } :
              game' = r.gs /\ ret' = Process("running", r.out)
    /\ depth' = depth + 1
    /\ UNCHANGED << visitor, stack, overflow_checks >>

\* "perft" => { let depth = parts.next().unwrap().parse::<usize>().unwrap();
\*              perft_div(&mut gs, depth); .. }
\* perft_div(gs, 0) evaluates limit - 1 for the first move: a panic with
\* overflow checks, a recursion usize::MAX deep without
CliPerft ==
    /\ CliReads
    /\ \E tok \in CliDepths :
         /\ last' = [ cb |-> "perft", args |-> << tok >>, parent |-> game ]
         /\ ret' = IF ParseUsize(tok) = None THEN Process("panicked", << >>)
                   ELSE IF ParseUsize(tok)[1] = 0 /\ moves(game) # << >>
                   THEN Process(IF overflow_checks THEN "panicked" ELSE "diverged", << >>)
                   ELSE Process("running", << "total", perft_div(game, ParseUsize(tok)[1]) >>)
    /\ depth' = depth + 1
    /\ UNCHANGED << game, visitor, stack, overflow_checks >>

\* "perft2" => { let depth = parts.next().unwrap().parse::<u64>().unwrap();
\*               let mut cont = PerftMove{ depth_target: depth, .. };
\*               gs.proc_movs(&mut cont); println!("total: {}", cont.counter); }
\* with depth_target 0 no callback ever meets self.depth == self.depth_target
CliPerft2 ==
    /\ CliReads
    /\ \E tok \in CliDepths :
         /\ last' = [ cb |-> "perft2", args |-> << tok >>, parent |-> game ]
         /\ ret' = IF ParseUsize(tok) = None THEN Process("panicked", << >>)
                   ELSE IF ParseUsize(tok)[1] = 0 /\ Calls(game) # << >>
                   THEN Process("diverged", << >>)
                   ELSE Process("running",
                                << "total", proc_movs(game, PerftMove(ParseUsize(tok)[1])).counter >>)
    /\ depth' = depth + 1
    /\ UNCHANGED << game, visitor, stack, overflow_checks >>

\* "quit" => { break; }
CliQuit ==
    /\ CliReads
    /\ last' = [ cb |-> "quit", args |-> << >>, parent |-> game ]
    /\ ret' = Process("exited", << >>)
    /\ depth' = depth + 1
    /\ UNCHANGED << game, visitor, stack, overflow_checks >>

\* _ => { println!("Unrecognised command.") }
CliOther ==
    /\ CliReads
    /\ last' = [ cb |-> "other", args |-> << >>, parent |-> game ]
    /\ ret' = Process("running", << "Unrecognised command." >>)
    /\ depth' = depth + 1
    /\ UNCHANGED << game, visitor, stack, overflow_checks >>

\* None => {}: a line without a token
CliBlank ==
    /\ CliReads
    /\ last' = [ cb |-> "blank", args |-> << >>, parent |-> game ]
    /\ ret' = Process("running", << >>)
    /\ depth' = depth + 1
    /\ UNCHANGED << game, visitor, stack, overflow_checks >>

\* iterator.next().unwrap() at the end of the input
CliEndOfInput ==
    /\ CliReads
    /\ last' = [ cb |-> "eof", args |-> << >>, parent |-> game ]
    /\ ret' = Process("panicked", << >>)
    /\ depth' = depth + 1
    /\ UNCHANGED << game, visitor, stack, overflow_checks >>

NextCli ==
    \/ CliFen
    \/ CliMove
    \/ CliPerft
    \/ CliPerft2
    \/ CliQuit
    \/ CliOther
    \/ CliBlank
    \/ CliEndOfInput

SpecCli == InitCli /\ [][NextCli]_vars

\* the last line read is a fen command whose text from_fen does not accept,
\* or a perft or perft2 command whose depth is not a number
RefParseFails ==
    /\ visitor = "Cli"
    /\ \/ /\ last.cb = "fen"
          /\ from_fen(FenFields(last.args[1])) = None
       \/ /\ last.cb \in { "perft", "perft2" }
          /\ \/ last.args[1] = << >>
             \/ \E i \in 1 .. Len(last.args[1]) :
                    last.args[1][i] \notin { "0", "1", "2", "3", "4", "5", "6", "7", "8", "9" }

\* C22: after a line whose FEN or depth does not parse, a warning has been
\* printed, the loop is still running and the position is the one before
\* the line.
C22_ParseErrorWarns ==
    RefParseFails =>
        /\ ret[1].status = "running"
        /\ ret[1].out # << >>
        /\ game = last.parent

(***************************************************************************)
(* The tags of the squares.                                                *)
(***************************************************************************)
\* the codes that stand for a piece: the six kinds, black and white
PieceCodes ==
    { PieceIdx[c] : c \in DOMAIN PieceIdx } \cup { 8 + PieceIdx[c] : c \in DOMAIN PieceIdx }

\* C23: in every position produced by from_fen or by a sequence of generated
\* moves each square's tag is 0000 or the code of a piece; 1000, 0110 and
\* 1110 do not occur.
C23_TagsValid ==
    \A s \in Sq : Tag(game.board, s) \in { 0 } \cup PieceCodes

\* a capture has been played: dupe wrote the tag of the moving piece over the
\* tag of another piece and clear emptied the square left
C23_Witness ==
    /\ depth >= 1
    /\ last.cb \in { "on_move", "on_king_move" }
    /\ Tag(last.parent.board, last.args[2]) \in PieceCodes
    /\ Tag(last.parent.board, last.args[2]) # Tag(last.parent.board, last.args[1])
    /\ Tag(game.board, last.args[2]) = Tag(last.parent.board, last.args[1])
    /\ Tag(game.board, last.args[1]) = 0

(***************************************************************************)
(* sliding_mask as a function of its arguments.                            *)
(***************************************************************************)
\* the (direction, step, side mask) triples of the calls of sliding_mask in
\* diagonal_attack_mask, diagonal_like_attack_mask, ortho_like_attack_mask,
\* the check arms and the pin arms; dx and dy are the change of the column
\* s % 8 and of the rank s \div 8 that one step of the triple stands for
SlideCalls ==
    { [ dir |-> "Left",  step |-> 7, side |-> LEFT_SIDE,  dx |-> -1, dy |-> 1 ],
      [ dir |-> "Left",  step |-> 9, side |-> RIGHT_SIDE, dx |-> 1,  dy |-> 1 ],
      [ dir |-> "Right", step |-> 9, side |-> LEFT_SIDE,  dx |-> -1, dy |-> -1 ],
      [ dir |-> "Right", step |-> 7, side |-> RIGHT_SIDE, dx |-> 1,  dy |-> -1 ],
      [ dir |-> "Left",  step |-> 1, side |-> RIGHT_SIDE, dx |-> 1,  dy |-> 0 ],
      [ dir |-> "Right", step |-> 1, side |-> LEFT_SIDE,  dx |-> -1, dy |-> 0 ],
      [ dir |-> "Left",  step |-> 8, side |-> {},         dx |-> 0,  dy |-> 1 ],
      [ dir |-> "Right", step |-> 8, side |-> {},         dx |-> 0,  dy |-> -1 ] }

\* the sets of more than one square are drawn from these squares: corners,
\* edges and the middle of the board, with whole lines among them
SlideSample == { 0, 7, 9, 18, 27, 28, 31, 35, 36, 56, 59, 63 }

\* the largest piece set and the largest blocker set
MaxPieces == 2

MaxBlockers == 2

SlideSets(n) ==
    { { s } : s \in Sq } \cup { m \in SUBSET SlideSample : Cardinality(m) >= 2 /\ Cardinality(m) <= n }

InitSlide ==
    /\ game = None
    /\ visitor = "Slide"
    /\ depth = 0
    /\ \E call \in SlideCalls, pieces \in SlideSets(MaxPieces),
          colision \in { {} } \cup SlideSets(MaxBlockers) :
         last = [ cb |-> "sliding_mask", args |-> << call, pieces, colision >>, parent |-> None ]
    /\ stack = << >>
    /\ ret = None
    /\ overflow_checks = FALSE

\* the pending call returns
SlideCall ==
    /\ visitor = "Slide"
    /\ ret = None
    /\ ret' = Some(sliding_mask(last.args[1].dir, last.args[2], last.args[1].step,
                                last.args[3], last.args[1].side))
    /\ depth' = depth + 1
    /\ UNCHANGED << game, visitor, last, stack, overflow_checks >>

NextSlide == SlideCall

SpecSlide == InitSlide /\ [][NextSlide]_vars

\* the square k steps of (dx, dy) away from s; -1 when that is off the board
RefStep(s, dx, dy, k) ==
    IF (s % 8) + k * dx \in 0 .. 7 /\ (s \div 8) + k * dy \in 0 .. 7
    THEN ((s \div 8) + k * dy) * 8 + (s % 8) + k * dx
    ELSE -1

\* the squares reached from s by one to seven steps, every square passed on
\* the way being on the board and free of blockers
RefRay(s, dx, dy, blockers) ==
    { RefStep(s, dx, dy, k) : k \in { n \in 1 .. 7 :
          /\ RefStep(s, dx, dy, n) # -1
          /\ \A j \in 1 .. n - 1 : RefStep(s, dx, dy, j) \notin blockers } }

\* C24: sliding_mask returns exactly the squares reached from each piece by
\* repeated steps in the direction up to and including the first blocker:
\* none beyond a blocker, none round an edge, and up to seven steps.
C24_SlidingMaskIsRays ==
    (visitor = "Slide" /\ ret # None) =>
        ret[1] = UNION { RefRay(s, last.args[1].dx, last.args[1].dy, last.args[3]) :
                         s \in last.args[2] }

\* a diagonal of full length: from the corner h1 seven steps to the blocker
\* on a8, which is in the result
C24_Witness ==
    /\ visitor = "Slide" /\ ret # None
    /\ last.args[2] = { 0 } /\ last.args[3] = { 63 } /\ last.args[1].step = 9
    /\ Cardinality(ret[1]) = 7 /\ 63 \in ret[1]

(***************************************************************************)
(* check_mask on positions with a single knight check.                     *)
(***************************************************************************)
\* the eight knight jumps as changes of column and rank
KnightJumps ==
    { << dx, dy >> \in { -2, -1, 1, 2 } \X { -2, -1, 1, 2 } : dx # dy /\ dx # -dy }

\* the board holding the king of the side to move on k and a knight of the
\* other side on n
KnightCheckBoard(TURN, k, n) ==
    SetTag(SetTag(EmptyBoard, k, PieceIdx["K"] + (IF TURN THEN 8 ELSE 0)),
           n, PieceIdx["N"] + (IF TURN THEN 0 ELSE 8))

InitCheck ==
    /\ visitor = "Check"
    /\ depth = 0
    /\ \E TURN \in BOOLEAN, k \in Sq, j \in KnightJumps :
         /\ RefStep(k, j[1], j[2], 1) # -1
         /\ game = from_parts(KnightCheckBoard(TURN, k, RefStep(k, j[1], j[2], 1)),
                              TURN, FALSE, FALSE, FALSE, FALSE, None)
         /\ last = [ cb |-> "check_mask", args |-> << k, RefStep(k, j[1], j[2], 1) >>,
                     parent |-> game ]
    /\ stack = << >>
    /\ ret = None
    /\ overflow_checks = FALSE

\* the pending call of check_mask::<TURN> returns
CheckMaskCall ==
    /\ visitor = "Check"
    /\ ret = None
    /\ ret' = Some(check_mask(game.board, game.turn))
    /\ depth' = depth + 1
    /\ UNCHANGED << game, visitor, last, stack, overflow_checks >>

NextCheck == CheckMaskCall

SpecCheck == InitCheck /\ [][NextCheck]_vars

\* C25: when one enemy knight attacks the king of the side to move and
\* nothing else gives check, check_mask is the set holding the knight's
\* square alone, for every king square and each of the eight jumps.
C25_KnightCheckMask ==
    (visitor = "Check" /\ ret # None) => ret[1] = { last.args[2] }

(***************************************************************************)
(* gen_king_moves on positions with the king checked along a line.         *)
(***************************************************************************)
\* the eight directions of a line as changes of column and rank
LineSteps == { d \in { -1, 0, 1 } \X { -1, 0, 1 } : d # << 0, 0 >> }

\* the glyphs of the sliders that move along the direction d
SlidersOn(d) == IF d[1] = 0 \/ d[2] = 0 THEN { "R", "Q" } ELSE { "B", "Q" }

\* the slider stands at most this many steps from the king
MaxDist == 3

\* the tag of the piece of glyph c, of the side to move or of the other side
TagOf(c, own, TURN) == PieceIdx[c] + (IF own = TURN THEN 8 ELSE 0)

\* the board with the king of the side to move on k, an enemy slider n steps
\* of d away and, when behind is a glyph, that enemy piece one step behind
\* the king
LineCheckBoard(TURN, k, d, n, slider, behind) ==
    LET b1 == SetTag(EmptyBoard, k, TagOf("K", TRUE, TURN))
        b2 == SetTag(b1, RefStep(k, d[1], d[2], n), TagOf(slider, FALSE, TURN))
    IN  IF behind = "-" THEN b2
        ELSE SetTag(b2, RefStep(k, -d[1], -d[2], 1), TagOf(behind, FALSE, TURN))

InitKing ==
    /\ visitor = "King"
    /\ depth = 0
    /\ \E TURN \in BOOLEAN, k \in Sq, d \in LineSteps, n \in 1 .. MaxDist,
          behind \in { "-", "P", "N", "B", "R", "Q" } :
         \E slider \in SlidersOn(d) :
           /\ RefStep(k, d[1], d[2], n) # -1
           /\ behind # "-" => RefStep(k, -d[1], -d[2], 1) # -1
           /\ game = from_parts(LineCheckBoard(TURN, k, d, n, slider, behind),
                                TURN, FALSE, FALSE, FALSE, FALSE, None)
           /\ last = [ cb |-> "gen_king_moves", args |-> << k, d, n >>, parent |-> game ]
    /\ stack = << >>
    /\ ret = None
    /\ overflow_checks = FALSE

\* the pending call of gen_king_moves returns: ret holds the callbacks made
KingCall ==
    /\ visitor = "King"
    /\ ret = None
    /\ ret' = Some(gen_king_moves(game.board, game.turn, game.white_qs, game.white_ks,
                                  game.black_qs, game.black_ks))
    /\ depth' = depth + 1
    /\ UNCHANGED << game, visitor, last, stack, overflow_checks >>

NextKing == KingCall

SpecKing == InitKing /\ [][NextKing]_vars

\* an enemy slider of the kind that moves along d stands on s
RefEnemySlider(g, s, d) ==
    /\ s \in colour_mask(g.board, ~g.turn)
    /\ Tag(g.board, s) % 8 \in { PieceIdx[c] : c \in SlidersOn(d) }

\* the king on k is checked along d: the first piece met from k in the
\* direction d is an enemy slider of the kind that moves along d
RefCheckedAlong(g, k, d) ==
    \E s \in RefRay(k, d[1], d[2], piece_mask(g.board)) : RefEnemySlider(g, s, d)

\* C26: when the king of the side to move is checked by an enemy slider along
\* a line, gen_king_moves emits no king move to either square next to the
\* king on that line unless the square holds an enemy slider of the matching
\* kind.
C26_NoStepAlongCheck ==
    (visitor = "King" /\ ret # None) =>
        \A d \in LineSteps :
            RefCheckedAlong(game, last.args[1], d) =>
                \A i \in 1 .. Len(ret[1]) :
                    (/\ ret[1][i].cb = "on_king_move"
                     /\ ret[1][i].args[2] \in { RefStep(last.args[1], d[1], d[2], 1),
                                                RefStep(last.args[1], -d[1], -d[2], 1) })
                        => RefEnemySlider(game, ret[1][i].args[2], d)

(***************************************************************************)
(* Claim on the destinations of the moves of pawns, knights and sliders.   *)
(***************************************************************************)
\* the square of the pawn an en-passant capture onto to takes off the board
RefEpTaken(g, to) == IF g.turn THEN to - 8 ELSE to + 8

\* the call is an en-passant capture of a pawn that attacks the king of the
\* side to move
RefTakesCheckingPawn(g, c) ==
    /\ c.cb = "on_ep_move"
    /\ \E k \in RefKings(g.board, g.turn) : RefAttacks(g.board, RefEpTaken(g, c.args[2]), k)

\* C27: every move of a pawn, a knight or a slider the generator emits has
\* its destination inside check_mask of the side to move, except an
\* en-passant capture that removes the checking pawn; with and without an
\* en-passant target.
C27_NonKingMovesInCheckMask ==
    \A c \in Range(Calls(game)) :
        c.cb \in { "on_move", "on_rook_move", "on_pawn_push2", "on_ep_move" } =>
            \/ CallTo(game, c) \in check_mask(game.board, game.turn)
            \/ RefTakesCheckingPawn(game, c)

(***************************************************************************)
(* Claim on the two visitors giving the same tree.                         *)
(***************************************************************************)
\* C28: the counting visitor PerftMove { depth_target: d, depth: 0,
\* counter: 0 } driven from a position, d >= 1, ends with depth 0 and counter
\* equal to perft of the position at depth d over the materialising visitor,
\* and for every callback both visitors continue from the same successor:
\* board, side to move, castling rights and ep.
C28_CountingEqualsMaterialising ==
    /\ depth = 0 =>
         \A d \in 1 .. depth_target :
             proc_movs(game, PerftMove(d))
                 = [ depth_target |-> d, depth |-> 0, counter |-> perft(game, d) ]
    /\ \A c \in Range(Calls(game)) : PerftVisit(game, c) = GenericVisit(game, c).bbg

(***************************************************************************)
(* Claim on the pieces a castle moves.                                     *)
(***************************************************************************)
\* the corner of the rook of a castle (h1, a1, h8, a8)
RefRookCorner(white, cb) ==
    IF cb = "on_ks_castle" THEN (IF white THEN 0 ELSE 56) ELSE (IF white THEN 7 ELSE 63)

\* the number of squares of b that carry the tag t
RefTagCount(b, t) == Cardinality({ s \in Sq : Tag(b, s) = t })

\* C29: whenever the generator emits on_ks_castle or on_qs_castle, the king of
\* the side to move stands on its home square (3 or 59) and a rook of that
\* side on the matching corner, and the successor holds the same pieces as
\* the parent: none created, deleted or recoloured.
C29_CastleMovesKingAndRook ==
    \A c \in Range(Calls(game)) :
        c.cb \in { "on_ks_castle", "on_qs_castle" } =>
            /\ Tag(game.board, KingHome(game.turn)) = PieceIdx["K"] + (IF game.turn THEN 8 ELSE 0)
            /\ Tag(game.board, RefRookCorner(game.turn, c.cb))
                   = PieceIdx["R"] + (IF game.turn THEN 8 ELSE 0)
            /\ \A t \in 1 .. 15 :
                   RefTagCount(GenericVisit(game, c).bbg.board, t) = RefTagCount(game.board, t)

(***************************************************************************)
(* Claim on moves() restoring the game it filters on.                      *)
(***************************************************************************)
\* C30: GameState::moves() leaves the GameState unchanged: for every
\* pseudo-legal move it generates in a position reached by its own moves,
\* move_det followed by unmove_det restores every square, the side to move,
\* the four castling flags and the en-passant column.
C30_MovesLeavesGameUnchanged ==
    \E r \in { GameState_moves(game) } :
        ~r.panic =>
            /\ r.gs = game
            /\ \A m \in Range(get_preliminary_moves(game)) :
                   unmove_det(move_det(game, m), m) = game

====
